---------------------------- MODULE Spec2Model ----------------------------
(***************************************************************************)
(* govm: a shim-based Go version manager.                                  *)
(*                                                                         *)
(* Strings are sequences of one-character strings, so that prefix          *)
(* stripping, trimming and the version regex are computed character by     *)
(* character as the Rust code computes them.                               *)
(***************************************************************************)
EXTENDS Naturals, Integers, Sequences, FiniteSets, TLC

VARIABLES
    env,         \* GOVM_VERSION: [set, val]
    pins,        \* .go-version per directory: pins[1] is the cwd, pins[Len] the root
    globalFile,  \* ~/.govm/version
    versions,    \* names of the directories under ~/.govm/versions
    shims,       \* ~/.govm/shims: binary name -> shim file
    pc,          \* position inside a multi-step command ("idle" between commands)
    op,          \* the command (or function) that acted last
    arg,         \* its argument, as typed: a version, a binary name, an answer
    res,         \* its result
    msg,         \* what it reported
    wasGlobal,   \* uninstall_version: global == Some(version) at line 236
    x,           \* first input of a pure function
    y,           \* second input of a pure function
    out,         \* output of a pure function
    bins,        \* <<version, binary>>: ~/.govm/versions/<version>/bin/<binary> exists
    spawned,     \* exec_command: the child process, if one was spawned
    status,      \* exec_command: how the child ended and the manager's exit code
    listing,     \* what get_installed_versions returned last
    keep,        \* prune_versions: its keep argument
    source,      \* show_version: the source it reported
    wrote,       \* ensure_shims, rehash: the shims the call wrote
    entries,     \* the entries of a versions directory, as read_dir yields them
    seen,        \* what another process resolved since the write in progress began
    temp_extract, \* <<file, version>>: ~/.govm/temp_extract/go/<file>, unpacked
                 \* from the archive of that version
    trees,       \* <<dir, file, version>>: ~/.govm/versions/<dir>/<file>, unpacked
                 \* from the archive of that version (concurrent installs)
    ipc,         \* concurrent installs: each process's version, position, result
    current,     \* find_local_version: the directory it is at (0: not walking)
    checks,      \* find_local_version: the directories whose .go-version it
                 \* looked for, in the order of the calls of exists()
    locals       \* exec_command: its local variables, as far as it has run

vars == <<env, pins, globalFile, versions, shims, pc, op, arg, res, msg,
          wasGlobal, x, y, out, bins, spawned, status, listing, keep, source,
          wrote,
          entries, seen, temp_extract, trees, ipc, current, checks, locals>>

----------------------------------------------------------------------------
(* Bounds of the model.                                                    *)

\* largest keep given to prune_versions
MaxKeep == 2
\* largest exit code of a child
MaxCode == 2
\* largest number of entries in the versions directory that is listed
MaxEntries == 3

\* longest input string given to normalize
NormMaxLen == 4
\* longest input string given to parse
KeyMaxLen == 4
\* number of ancestors of the working directory (the root is the last one)
Depth == 2

----------------------------------------------------------------------------
(* Strings.                                                                *)

\* all strings over alphabet A of length at most n
StringsUpTo(A, n) == UNION {[1..k -> A] : k \in 0..n}

\* byte value of a character (Rust compares String bytewise)
Byte(c) ==
    CASE c = "\n" -> 10
      [] c = " "  -> 32
      [] c = "."  -> 46
      [] c = "0"  -> 48
      [] c = "1"  -> 49
      [] c = "2"  -> 50
      [] c = "3"  -> 51
      [] c = "4"  -> 52
      [] c = "5"  -> 53
      [] c = "6"  -> 54
      [] c = "7"  -> 55
      [] c = "8"  -> 56
      [] c = "9"  -> 57
      [] c = "b"  -> 98
      [] c = "c"  -> 99
      [] c = "g"  -> 103
      [] c = "m"  -> 109
      [] c = "o"  -> 111
      [] c = "p"  -> 112
      [] c = "r"  -> 114
      [] c = "t"  -> 116
      [] c = "v"  -> 118

IsPrefix(p, s) == Len(p) <= Len(s) /\ SubSeq(s, 1, Len(p)) = p

DropFirst(s, n) == SubSeq(s, n + 1, Len(s))

\* str::trim_start_matches(pat): strips the prefix repeatedly while it matches
RECURSIVE trim_start_matches(_, _)
trim_start_matches(s, pat) ==
    IF pat # <<>> /\ IsPrefix(pat, s)
    THEN trim_start_matches(DropFirst(s, Len(pat)), pat)
    ELSE s

IsWhitespace(c) == c \in {" ", "\n"}

RECURSIVE trim_start(_)
trim_start(s) ==
    IF s # <<>> /\ IsWhitespace(Head(s)) THEN trim_start(Tail(s)) ELSE s

RECURSIVE trim_end(_)
trim_end(s) ==
    IF s # <<>> /\ IsWhitespace(s[Len(s)])
    THEN trim_end(SubSeq(s, 1, Len(s) - 1))
    ELSE s

\* str::trim
trim(s) == trim_end(trim_start(s))

----------------------------------------------------------------------------
(* version.rs: normalize                                                   *)

\* strips every leading 'v', then every leading "go", in that order only
normalize(version) ==
    trim_start_matches(trim_start_matches(version, <<"v">>), <<"g", "o">>)

----------------------------------------------------------------------------
(* version.rs: parse, and the order of its keys                            *)

\* length of the longest prefix of s made of digits: what a greedy \d+ takes
RECURSIVE DigitRun(_)
DigitRun(s) ==
    IF s # <<>> /\ Head(s) \in {"0", "1", "2", "3", "4", "5", "6", "7", "8", "9"}
    THEN 1 + DigitRun(Tail(s))
    ELSE 0

\* u32::MAX, as the digits str::parse::<u32> accepts at most
U32MaxDigits == <<"4", "2", "9", "4", "9", "6", "7", "2", "9", "5">>

\* bytewise lexicographic order of two strings (Ord for str)
RECURSIVE StrLess(_, _)
StrLess(a, b) ==
    IF b = <<>> THEN FALSE
    ELSE IF a = <<>> THEN TRUE
    ELSE IF Byte(Head(a)) # Byte(Head(b)) THEN Byte(Head(a)) < Byte(Head(b))
    ELSE StrLess(Tail(a), Tail(b))

RECURSIVE DigitsValue(_)
DigitsValue(ds) ==
    IF ds = <<>> THEN 0
    ELSE 10 * DigitsValue(SubSeq(ds, 1, Len(ds) - 1)) + (Byte(ds[Len(ds)]) - Byte("0"))

\* m.as_str().parse().unwrap_or(0) at type u32: 0 when the digits overflow u32
parse_u32(ds) ==
    LET sig == trim_start_matches(ds, <<"0">>)
        fits == \/ Len(sig) < Len(U32MaxDigits)
                \/ Len(sig) = Len(U32MaxDigits) /\ ~StrLess(U32MaxDigits, sig)
    IN  IF fits THEN DigitsValue(sig) ELSE 0

\* the captures of ^(\d+)\.(\d+)(?:\.(\d+))?(.*)$ on v, or matched = FALSE
captures(v) ==
    LET n1 == DigitRun(v)
        r1 == DropFirst(v, n1)
        afterDot == DropFirst(r1, 1)
        n2 == DigitRun(afterDot)
        r2 == DropFirst(afterDot, n2)
        n3 == IF r2 # <<>> /\ Head(r2) = "." THEN DigitRun(Tail(r2)) ELSE 0
        r3 == IF n3 > 0 THEN DropFirst(r2, n3 + 1) ELSE r2
        ok == /\ n1 > 0
              /\ r1 # <<>> /\ Head(r1) = "."
              /\ n2 > 0
              \* '.' of the regex matches any character but a line feed
              /\ \A i \in 1..Len(r3) : r3[i] # "\n"
    IN  [matched |-> ok,
         g1 |-> SubSeq(v, 1, n1),
         g2 |-> SubSeq(afterDot, 1, n2),
         g3 |-> IF n3 > 0 THEN SubSeq(r2, 2, n3 + 1) ELSE <<>>,
         g4 |-> r3]

\* whether the regex of parse matches v
is_parseable(v) == captures(v).matched

\* (major, minor, patch, suffix)
parse(v) ==
    LET caps == captures(v) IN
    IF caps.matched
    THEN <<parse_u32(caps.g1), parse_u32(caps.g2),
           IF caps.g3 = <<>> THEN 0 ELSE parse_u32(caps.g3), caps.g4>>
    ELSE <<0, 0, 0, v>>

\* derived Ord of the tuple (u32, u32, u32, String): lexicographic
KeyLess(a, b) ==
    \/ a[1] < b[1]
    \/ a[1] = b[1] /\ a[2] < b[2]
    \/ a[1] = b[1] /\ a[2] = b[2] /\ a[3] < b[3]
    \/ a[1] = b[1] /\ a[2] = b[2] /\ a[3] = b[3] /\ StrLess(a[4], b[4])

\* Ord::cmp of two keys
compare(a, b) ==
    IF KeyLess(a, b) THEN "less" ELSE IF KeyLess(b, a) THEN "greater" ELSE "equal"

----------------------------------------------------------------------------
(* Files, Option and Result.                                               *)

NoFile == [kind |-> "absent", content |-> <<>>]

\* a file that exists (Path::exists is true) and that fs::read_to_string fails
\* on: no read permission, a directory of that name, content that is not UTF-8
Unreadable == [kind |-> "unreadable", content |-> <<>>]

File(c) == [kind |-> "file", content |-> c]

\* Path::exists
exists(f) == f.kind # "absent"

None == [tag |-> "None", val |-> <<>>]

Some(v) == [tag |-> "Some", val |-> v]

\* Err(_) of anyhow::Result, as the ? operator propagates it
Err == [tag |-> "Err", val |-> <<>>]

NoEnv == [set |-> FALSE, val |-> <<>>]

EnvVar(v) == [set |-> TRUE, val |-> v]

----------------------------------------------------------------------------
(* version.rs: resolve, find_local_version, get_global_version             *)

\* a walk that stops at the first .go-version that exists, empty or not
RECURSIVE find_local_from_stopAtFirst(_, _)
find_local_from_stopAtFirst(chain, i) ==
    IF exists(chain[i])
    THEN IF chain[i].kind = "unreadable" THEN Err
         ELSE LET version == normalize(trim(chain[i].content)) IN
              IF version # <<>> THEN Some(version) ELSE None
    ELSE IF i < Len(chain) THEN find_local_from_stopAtFirst(chain, i + 1) ELSE None

\* the loop of find_local_version with current = the i-th directory of the chain
RECURSIVE find_local_from(_, _)
find_local_from(chain, i) ==
    LET up == IF i < Len(chain) THEN find_local_from(chain, i + 1) ELSE None IN
    IF exists(chain[i])
    THEN IF chain[i].kind = "unreadable" THEN Err
         ELSE LET version == normalize(trim(chain[i].content)) IN
              IF version # <<>> THEN Some(version) ELSE up
    ELSE up

find_local_version(chain) == find_local_from(chain, 1)

get_global_version(gf) ==
    IF exists(gf)
    THEN IF gf.kind = "unreadable" THEN Err
         ELSE LET version == normalize(trim(gf.content)) IN
              IF version # <<>> THEN Some(version) ELSE None
    ELSE None

\* a resolve that asks the global default before the scoped pins
resolve_globalFirst(e, chain, gf) ==
    IF e.set /\ normalize(e.val) # <<>> THEN Some(normalize(e.val))
    ELSE LET global == get_global_version(gf) IN
         IF global.tag # "None" THEN global ELSE find_local_version(chain)

resolve(e, chain, gf) ==
    IF e.set /\ normalize(e.val) # <<>> THEN Some(normalize(e.val))
    ELSE LET local == find_local_version(chain) IN
         IF local.tag # "None" THEN local ELSE get_global_version(gf)

----------------------------------------------------------------------------
(* govm.rs: show_version, the source it prints after the version           *)

\* show_version printed no "(set by ...)"
NoSource == [kind |-> "none", level |-> 0]

\* "(set by GOVM_VERSION)"
EnvSource == [kind |-> "env", level |-> 0]

\* "(set by <the .go-version of the i-th directory of the chain>)"
PinSource(i) == [kind |-> "pin", level |-> i]

\* "(set by ~/.govm/version)"
GlobalSource == [kind |-> "global", level |-> 0]

\* the loop of lines 334-348: the first .go-version that exists, going up
RECURSIVE first_existing_from(_, _)
first_existing_from(chain, i) ==
    IF exists(chain[i]) THEN PinSource(i)
    ELSE IF i < Len(chain) THEN first_existing_from(chain, i + 1)
    ELSE NoSource

\* what show_version prints as the source of the version resolve returned
show_version(e, chain, gf) ==
    LET resolved == resolve(e, chain, gf)
        local == find_local_version(chain)
    IN  IF resolved.tag # "Some" THEN NoSource
        ELSE IF e.set THEN EnvSource
        ELSE IF local.tag = "Some"
             THEN IF local.val = resolved.val THEN first_existing_from(chain, 1)
                  ELSE NoSource
        ELSE GlobalSource

----------------------------------------------------------------------------
(* The state between commands, shared by the specifications below.         *)

\* constants.rs: GO_BINARIES
GO_BINARIES == {"go", "gofmt"}

NoShim ==
    [present |-> FALSE, readable |-> FALSE, govm |-> <<>>, binary |-> "",
     executable |-> FALSE]

NoPins == [i \in 1..(Depth + 1) |-> NoFile]

NoKey == <<0, 0, 0, <<>>>>

NoOut == [val |-> <<>>, kx |-> NoKey, ky |-> NoKey, ord |-> "none"]

\* no other process has resolved yet
NotRead == [tag |-> "NotRead", val |-> <<>>]

\* no child process
NoChild == [binary_path |-> <<>>, goroot |-> <<>>]

\* no child has ended and the manager has not exited
NoStatus == [child |-> [kind |-> "none", n |-> 0], exit |-> 0]

\* what only concurrent installs change
installVars == <<temp_extract, trees, ipc>>

\* exec_command has not bound any of its locals; resolves counts the calls of
\* resolve_version, checked is the version given to is_version_installed
NoLocals ==
    [resolves |-> 0, version |-> <<>>, checked |-> <<>>, binary_path |-> <<>>]

\* what only the commands that are modelled statement by statement change
stepVars == <<current, checks, locals>>

\* nothing has run yet
Fresh ==
    /\ pc = "idle"
    /\ op = "none"
    /\ arg = <<>>
    /\ res = None
    /\ msg = "none"
    /\ wasGlobal = FALSE
    /\ spawned = NoChild
    /\ status = NoStatus
    /\ listing = <<>>
    /\ keep = 0
    /\ source = NoSource
    /\ wrote = {}
    /\ temp_extract = {}
    /\ trees = {}
    /\ ipc = <<>>
    /\ current = 0
    /\ checks = <<>>
    /\ locals = NoLocals

NoInputs == x = <<>> /\ y = <<>> /\ out = NoOut /\ entries = <<>> /\ seen = NotRead

\* a file system with nothing in it but the directories GoVM::new creates
EmptyHome ==
    /\ env = NoEnv
    /\ pins = NoPins
    /\ globalFile = NoFile
    /\ versions = {}
    /\ shims = [b \in GO_BINARIES |-> NoShim]
    /\ bins = {}

fsVars == <<env, pins, globalFile, versions, shims, bins>>

\* what the commands of govm.rs and the listing leave behind for inspection
outVars == <<spawned, status, listing, keep, source, wrote>>

\* a command is a new run of the manager: it starts with no child process, no
\* listing read, nothing reported and nothing written
Forget ==
    /\ spawned' = NoChild
    /\ status' = NoStatus
    /\ listing' = <<>>
    /\ keep' = 0
    /\ source' = NoSource
    /\ wrote' = {}

----------------------------------------------------------------------------
(* SpecNormalize: normalize applied to every short string.                 *)

InitNormalize ==
    /\ EmptyHome
    /\ Fresh
    /\ x \in StringsUpTo({"v", "g", "o", "1", "."}, NormMaxLen)
    /\ y = <<>>
    /\ out = NoOut
    /\ entries = <<>>
    /\ seen = NotRead

\* out = normalize(x)
Normalize ==
    /\ op = "none"
    /\ op' = "normalize"
    /\ out' = [NoOut EXCEPT !.val = normalize(x)]
    /\ UNCHANGED <<fsVars, pc, arg, res, msg, wasGlobal, x, y, outVars, entries, seen, installVars, stepVars>>

\* out = normalize(normalize(x)): a canonical string entering the system again
NormalizeAgain ==
    /\ op = "normalize"
    /\ op' = "normalize_again"
    /\ out' = [NoOut EXCEPT !.val = normalize(out.val)]
    /\ UNCHANGED <<fsVars, pc, arg, res, msg, wasGlobal, x, y, outVars, entries, seen, installVars, stepVars>>

NextNormalize == Normalize \/ NormalizeAgain

SpecNormalize == InitNormalize /\ [][NextNormalize]_vars

\* C4: canonicalization is idempotent: for every string x,
\* normalize(normalize(x)) = normalize(x).
NormalizeIdempotent ==
    op = "normalize_again" => out.val = normalize(x)

\* C5: normalize strips exactly one leading "v" and exactly one leading "go",
\* in whichever order they appear, and leaves the rest of the string untouched.
NormalizeStripsOneOfEach ==
    LET v == <<"v">>
        go == <<"g", "o">>
        strip(s, t) == IF IsPrefix(t, s) THEN DropFirst(s, Len(t)) ELSE s
        expected == IF IsPrefix(v, x) THEN strip(strip(x, v), go)
                    ELSE IF IsPrefix(go, x) THEN strip(strip(x, go), v)
                    ELSE x
    IN  op = "normalize" => out.val = expected

----------------------------------------------------------------------------
(* SpecParse: parse and the key order applied to every pair of short       *)
(* strings.                                                                *)

KeyAlphabet == {"0", "1", ".", "r"}

InitParse ==
    /\ EmptyHome
    /\ Fresh
    /\ x \in StringsUpTo(KeyAlphabet, KeyMaxLen)
    /\ y \in StringsUpTo(KeyAlphabet, KeyMaxLen)
    /\ out = NoOut
    /\ entries = <<>>
    /\ seen = NotRead

\* out.kx = parse(x)
Parse ==
    /\ op = "none"
    /\ op' = "parse"
    /\ out' = [NoOut EXCEPT !.kx = parse(x)]
    /\ UNCHANGED <<fsVars, pc, arg, res, msg, wasGlobal, x, y, outVars, entries, seen, installVars, stepVars>>

\* out.ord = parse(x).cmp(parse(y))
Compare ==
    /\ op = "none"
    /\ op' = "compare"
    /\ out' = [NoOut EXCEPT !.kx = parse(x), !.ky = parse(y),
                            !.ord = compare(parse(x), parse(y))]
    /\ UNCHANGED <<fsVars, pc, arg, res, msg, wasGlobal, x, y, outVars, entries, seen, installVars, stepVars>>

NextParse == Parse \/ Compare

SpecParse == InitParse /\ [][NextParse]_vars

\* C6: keys compare by major, then minor, then patch numerically; when all
\* three are equal a key with an empty prerelease string is strictly greater
\* than one with a non-empty prerelease string, and two non-empty prerelease
\* strings compare lexicographically.
StableAbovePrerelease ==
    LET a == out.kx
        b == out.ky
        numbers(k) == <<k[1], k[2], k[3]>>
        numLess(k, l) == \/ k[1] < l[1]
                         \/ k[1] = l[1] /\ k[2] < l[2]
                         \/ k[1] = l[1] /\ k[2] = l[2] /\ k[3] < l[3]
        expected ==
            IF numbers(a) # numbers(b)
            THEN IF numLess(a, b) THEN "less" ELSE "greater"
            ELSE IF a[4] = b[4] THEN "equal"
            ELSE IF a[4] = <<>> THEN "greater"
            ELSE IF b[4] = <<>> THEN "less"
            ELSE IF StrLess(a[4], b[4]) THEN "less" ELSE "greater"
    IN  op = "compare" /\ is_parseable(x) /\ is_parseable(y) => out.ord = expected

\* C7: an unparseable string s maps to (0,0,0,s); its key compares below the
\* key of every parseable version string, "0.0.0" included; two different
\* unparseable strings get different keys.
UnparseableSortsLowest ==
    /\ op = "parse" /\ ~is_parseable(x) => out.kx = <<0, 0, 0, x>>
    /\ op = "compare" /\ ~is_parseable(x) /\ is_parseable(y) => out.ord = "less"
    /\ op = "compare" /\ ~is_parseable(x) /\ ~is_parseable(y) /\ x # y
          => out.kx # out.ky

----------------------------------------------------------------------------
(* SpecResolve: resolution in every placement of marker files.             *)

V12 == <<"1", ".", "2">>

V13 == <<"1", ".", "3">>

V14 == <<"1", ".", "4">>

LF == <<"\n">>

\* what a marker file may hold: nothing, white space, a bare prefix, a
\* canonical version, a prefixed version with white space around it
MarkerStates ==
    {NoFile, Unreadable, File(<<" ", "\n">>), File(<<"v">> \o LF),
     File(V12 \o LF), File(<<" ", "g", "o">> \o V13 \o LF)}

InitResolve ==
    /\ env \in {NoEnv, EnvVar(<<>>), EnvVar(<<"v">>), EnvVar(<<"g", "o">> \o V14)}
    /\ pins \in [1..(Depth + 1) -> MarkerStates]
    /\ globalFile \in MarkerStates
    /\ versions = {}
    /\ shims = [b \in GO_BINARIES |-> NoShim]
    /\ bins = {}
    /\ Fresh
    /\ NoInputs

\* GoVM::resolve_version
resolve_version ==
    /\ op = "none"
    /\ op' = "resolve"
    /\ res' = resolve(env, pins, globalFile)
    /\ UNCHANGED <<fsVars, pc, arg, msg, wasGlobal, x, y, out, outVars, entries, seen, installVars, stepVars>>

\* find_local_version, as show_version calls it
FindLocal ==
    /\ op = "none"
    /\ op' = "find_local"
    /\ res' = find_local_version(pins)
    /\ UNCHANGED <<fsVars, pc, arg, msg, wasGlobal, x, y, out, outVars, entries, seen, installVars, stepVars>>

\* GoVM::get_global_version
GetGlobal ==
    /\ op = "none"
    /\ op' = "get_global"
    /\ res' = get_global_version(globalFile)
    /\ UNCHANGED <<fsVars, pc, arg, msg, wasGlobal, x, y, out, outVars, entries, seen, installVars, stepVars>>

\* GoVM::show_version
ShowVersion ==
    /\ op = "none"
    /\ op' = "show"
    /\ res' = resolve(env, pins, globalFile)
    /\ source' = show_version(env, pins, globalFile)
    /\ UNCHANGED <<fsVars, pc, arg, msg, wasGlobal, x, y, out, spawned, status, listing,
                   keep, wrote, entries, seen, installVars, stepVars>>

NextResolve == resolve_version \/ FindLocal \/ GetGlobal \/ ShowVersion

SpecResolve == InitResolve /\ [][NextResolve]_vars

\* C1: resolve follows a strict first-match-wins precedence: the override if
\* it canonicalizes to non-empty, otherwise the nearest non-empty scoped pin,
\* otherwise the global default if non-empty, otherwise absent. (When resolve
\* fails instead of returning, a marker file it had to read is unreadable.)
ResolvePrecedence ==
    LET value(f) == IF f.kind = "file" THEN normalize(trim(f.content)) ELSE <<>>
        levels == {i \in 1..Len(pins) : value(pins[i]) # <<>>}
        nearest == CHOOSE i \in levels : \A j \in levels : i <= j
        unreadable == {i \in 1..Len(pins) : pins[i].kind = "unreadable"}
        expected ==
            IF env.set /\ normalize(env.val) # <<>> THEN Some(normalize(env.val))
            ELSE IF levels # {} THEN Some(value(pins[nearest]))
            ELSE IF value(globalFile) # <<>> THEN Some(value(globalFile))
            ELSE None
    IN  op = "resolve" =>
            IF res = Err
            THEN /\ ~(env.set /\ normalize(env.val) # <<>>)
                 /\ \/ \E u \in unreadable : \A i \in levels : u < i
                    \/ levels = {} /\ globalFile.kind = "unreadable"
            ELSE res = expected

\* a higher source is empty at every level and a lower one supplies the version
ResolvePrecedenceWitness ==
    /\ op = "resolve"
    /\ env.set
    /\ pins[1].kind = "file"
    /\ \A i \in 1..Len(pins) : pins[i].kind # "unreadable"
    /\ pins[Len(pins)] = File(<<" ", "g", "o">> \o V13 \o LF)
    /\ globalFile = File(V12 \o LF)
    /\ res = Some(V13)

\* C2: find_local_version returns the canonicalized trimmed content of the
\* pin nearest to the working directory whose canonicalized trimmed content is
\* non-empty, at any distance; an empty or white-space-only pin is passed over
\* as if absent. (When it fails instead, a pin it had to read is unreadable.)
ScopedPinAscent ==
    LET value(f) == IF f.kind = "file" THEN normalize(trim(f.content)) ELSE <<>>
        levels == {i \in 1..Len(pins) : value(pins[i]) # <<>>}
        unreadable == {i \in 1..Len(pins) : pins[i].kind = "unreadable"}
    IN  op = "find_local" =>
            IF res = Err
            THEN \E u \in unreadable : \A i \in levels : u < i
            ELSE IF levels = {} THEN res = None
            ELSE \E i \in levels :
                    /\ \A j \in levels : i <= j
                    /\ res = Some(value(pins[i]))

\* a white-space-only pin in the cwd, none in between, the version found at the root
ScopedPinAscentWitness ==
    /\ op = "find_local"
    /\ pins[1] = File(<<" ", "\n">>)
    /\ \A i \in 2..(Len(pins) - 1) : pins[i] = NoFile
    /\ Len(pins) >= 3
    /\ res = Some(V13)

\* C3: resolution never fails because a marker file cannot be read: an
\* unreadable marker is treated as absent, and resolve returns what it would
\* return if that marker did not exist.
UnreadableMarkerIsAbsent ==
    LET without(f) == IF f.kind = "unreadable" THEN NoFile ELSE f
        readablePins == [i \in 1..Len(pins) |-> without(pins[i])]
    IN  op = "resolve" =>
            /\ res # Err
            /\ res = resolve(env, readablePins, without(globalFile))

----------------------------------------------------------------------------
(* govm.rs and shim.rs: the commands.                                      *)

Ok == [tag |-> "Ok", val |-> <<>>]

Running == [tag |-> "Running", val |-> <<>>]

\* versions_dir.join(version).exists(): joining the empty string gives the
\* versions directory itself, which GoVM::new has created
is_version_installed(dirs, version) == version = <<>> \/ version \in dirs

\* fs::remove_dir_all(versions_dir.join(version)), as it leaves the listing
remove_dir_all(dirs, version) == IF version = <<>> THEN {} ELSE dirs \ {version}

\* the file create_shim writes for a binary, bound to the manager at govm_path
create_shim(binary, govm_path) ==
    [present |-> TRUE, readable |-> TRUE, govm |-> govm_path, binary |-> binary,
     executable |-> TRUE]

create_all_shims(govm_path) == [b \in GO_BINARIES |-> create_shim(b, govm_path)]

\* a set_global_version that writes the version as typed
set_global_version_asTyped(v) ==
    /\ pc = "idle"
    /\ op' = "global"
    /\ arg' = v
    /\ IF ~is_version_installed(versions, normalize(v))
       THEN /\ res' = Err
            /\ msg' = "NotInstalled"
            /\ UNCHANGED globalFile
       ELSE /\ globalFile' = File(v \o LF)
            /\ res' = Ok
            /\ msg' = "set_global"
    /\ Forget
    /\ UNCHANGED <<env, pins, versions, shims, bins, pc, wasGlobal, x, y, out,
                   entries, seen, installVars, stepVars>>

set_global_version(v) ==
    LET version == normalize(v) IN
    /\ pc = "idle"
    /\ op' = "global"
    /\ arg' = v
    /\ IF ~is_version_installed(versions, version)
       THEN /\ res' = Err
            /\ msg' = "NotInstalled"
            /\ UNCHANGED globalFile
       ELSE /\ globalFile' = File(version \o LF)
            /\ res' = Ok
            /\ msg' = "set_global"
    /\ Forget
    /\ UNCHANGED <<env, pins, versions, shims, bins, pc, wasGlobal, x, y, out,
                   entries, seen, installVars, stepVars>>

set_local_version(v) ==
    LET version == normalize(v) IN
    /\ pc = "idle"
    /\ op' = "local"
    /\ arg' = v
    /\ IF ~is_version_installed(versions, version)
       THEN /\ res' = Err
            /\ msg' = "NotInstalled"
            /\ UNCHANGED pins
       ELSE /\ pins' = [pins EXCEPT ![1] = File(version \o LF)]
            /\ res' = Ok
            /\ msg' = "set_local"
    /\ Forget
    /\ UNCHANGED <<env, globalFile, versions, shims, bins, pc, wasGlobal, x, y,
                   out, entries, seen, installVars, stepVars>>

\* an uninstall_version that goes on to remove the directory without looking
\* at the global default
uninstall_version_noClear(v) ==
    LET version == normalize(v) IN
    /\ pc = "idle"
    /\ op' = "uninstall"
    /\ arg' = v
    /\ IF ~is_version_installed(versions, version)
       THEN /\ res' = Ok
            /\ msg' = "not_installed"
            /\ pc' = "idle"
            /\ wasGlobal' = FALSE
       ELSE /\ res' = Running
            /\ msg' = "none"
            /\ wasGlobal' = (get_global_version(globalFile) = Some(version))
            /\ pc' = "uninstall_rmdir"
    /\ Forget
    /\ UNCHANGED <<fsVars, x, y, out, entries, seen, installVars, stepVars>>

\* an uninstall_version without the early return of line 229
uninstall_version_noCheck(v) ==
    LET version == normalize(v)
        global == get_global_version(globalFile)
    IN
    /\ pc = "idle"
    /\ op' = "uninstall"
    /\ arg' = v
    /\ IF global = Err
       THEN /\ res' = Err
            /\ msg' = "IoFailure"
            /\ pc' = "idle"
            /\ wasGlobal' = FALSE
       ELSE /\ res' = Running
            /\ msg' = "none"
            /\ wasGlobal' = (global = Some(version))
            /\ pc' = IF global = Some(version)
                     THEN "uninstall_clear" ELSE "uninstall_rmdir"
    /\ Forget
    /\ UNCHANGED <<fsVars, x, y, out, entries, seen, installVars, stepVars>>

\* uninstall_version, lines 226-236: the installed check and the read of the
\* global default
uninstall_version(v) ==
    LET version == normalize(v)
        global == get_global_version(globalFile)
    IN
    /\ pc = "idle"
    /\ op' = "uninstall"
    /\ arg' = v
    /\ IF ~is_version_installed(versions, version)
       THEN /\ res' = Ok
            /\ msg' = "not_installed"
            /\ pc' = "idle"
            /\ wasGlobal' = FALSE
       ELSE IF global = Err
       THEN /\ res' = Err
            /\ msg' = "IoFailure"
            /\ pc' = "idle"
            /\ wasGlobal' = FALSE
       ELSE /\ res' = Running
            /\ msg' = "none"
            /\ wasGlobal' = (global = Some(version))
            /\ pc' = IF global = Some(version)
                     THEN "uninstall_clear" ELSE "uninstall_rmdir"
    /\ Forget
    /\ UNCHANGED <<fsVars, x, y, out, entries, seen, installVars, stepVars>>

\* uninstall_version, lines 238-241: fs::remove_file(global_version_file)
uninstall_clear_global ==
    /\ pc = "uninstall_clear"
    /\ globalFile' = NoFile
    /\ msg' = "cleared_global"
    /\ pc' = "uninstall_rmdir"
    /\ UNCHANGED <<env, pins, versions, shims, bins, op, arg, res, wasGlobal,
                   x, y, out, outVars, entries, seen, installVars, stepVars>>

\* uninstall_version, lines 244-253: fs::remove_dir_all(version_dir)
uninstall_remove_dir ==
    /\ pc = "uninstall_rmdir"
    /\ versions' = remove_dir_all(versions, normalize(arg))
    /\ bins' = {b \in bins : b[1] \in versions'}
    /\ msg' = "uninstalled"
    /\ res' = Ok
    /\ pc' = "idle"
    /\ UNCHANGED <<env, pins, globalFile, shims, op, arg, wasGlobal, x, y, out,
                   outVars, entries, seen, installVars, stepVars>>

\* rehash, run by the manager installed at govm_path
rehash(govm_path) ==
    /\ pc = "idle"
    /\ op' = "rehash"
    /\ arg' = govm_path
    /\ shims' = create_all_shims(govm_path)
    /\ wrote' = GO_BINARIES
    /\ spawned' = NoChild
    /\ status' = NoStatus
    /\ listing' = <<>>
    /\ keep' = 0
    /\ source' = NoSource
    /\ res' = Ok
    /\ msg' = "rehashed"
    /\ UNCHANGED <<env, pins, globalFile, versions, bins, pc, wasGlobal, x, y,
                   out, entries, seen, installVars, stepVars>>

----------------------------------------------------------------------------
(* govm.rs: get_installed_versions                                         *)

Range(f) == {f[i] : i \in DOMAIN f}

\* an entry of ~/.govm/versions as fs::read_dir yields it; kind is "dir",
\* "file" (file_type().is_dir() is false) or "error" (entry? or file_type()?
\* fails)
Entry(name, kind) == [name |-> name, kind |-> kind]

\* the orders in which read_dir may yield the directories named in dirs
Enumerations(dirs) ==
    IF dirs = {} THEN {<<>>}
    ELSE {[i \in 1..Cardinality(dirs) |-> Entry(e[i], "dir")] :
            e \in {f \in [1..Cardinality(dirs) -> dirs] : Range(f) = dirs}}

\* the names pushed by the loop of lines 47-54, in the order read_dir yields
RECURSIVE pushed(_)
pushed(es) ==
    IF Len(es) = 0 THEN <<>>
    ELSE IF Head(es).kind = "dir" THEN <<Head(es).name>> \o pushed(Tail(es))
    ELSE pushed(Tail(es))

\* sort_by_key(|v| Reverse(parse(v))): a stable sort, descending by key. An
\* element comes after those with a greater key and after those with an equal
\* key that stood before it.
sort_by_key(l) ==
    LET before(i) == {j \in 1..Len(l) :
                        \/ KeyLess(parse(l[i]), parse(l[j]))
                        \/ /\ ~KeyLess(parse(l[j]), parse(l[i]))
                           /\ j < i}
    IN  IF Len(l) = 0 THEN <<>>
        ELSE [n \in 1..Len(l) |->
                l[CHOOSE i \in 1..Len(l) : Cardinality(before(i)) = n - 1]]

get_installed_versions(es) ==
    IF \E i \in 1..Len(es) : es[i].kind = "error" THEN Err
    ELSE [tag |-> "Ok", val |-> sort_by_key(pushed(es))]

----------------------------------------------------------------------------
(* govm.rs: prune_versions                                                 *)

\* char::to_lowercase on the characters an answer is made of
Lower(c) == CASE c = "Y" -> "y" [] c = "N" -> "n" [] OTHER -> c

\* a lowering that keeps the first letter only, so that "yes" reads as "y"
to_lowercase_firstLetter(s) == IF Len(s) = 0 THEN s ELSE <<Lower(s[1])>>

\* str::to_lowercase
to_lowercase(s) == [i \in 1..Len(s) |-> Lower(s[i])]

\* a selection that does not protect the global default
to_remove_all(installed, k, global) == SubSeq(installed, k + 1, Len(installed))

\* versions.iter().skip(keep).filter(|v| global.as_ref() != Some(*v))
to_remove(installed, k, global) ==
    SelectSeq(SubSeq(installed, k + 1, Len(installed)),
              LAMBDA v : global # Some(v))

\* the loop of lines 543-547: fs::remove_dir_all for every element of l
RECURSIVE remove_each(_, _)
remove_each(dirs, l) ==
    IF Len(l) = 0 THEN dirs ELSE remove_each(remove_dir_all(dirs, Head(l)), Tail(l))

\* prune_versions with keep = k and input read from the prompt, if it prompts
prune_versions(k, input) ==
    \E es \in Enumerations(versions) :
        LET installed == get_installed_versions(es)
            global == get_global_version(globalFile)
            removing == to_remove(installed.val, k, global)
        IN
        /\ pc = "idle"
        /\ op' = "prune"
        /\ keep' = k
        /\ spawned' = NoChild
        /\ status' = NoStatus
        /\ source' = NoSource
        /\ wrote' = {}
        /\ IF installed = Err \/ global = Err
           THEN /\ res' = Err
                /\ msg' = "IoFailure"
                /\ arg' = <<>>
                /\ listing' = IF installed = Err THEN <<>> ELSE installed.val
                /\ UNCHANGED <<versions, bins>>
           ELSE /\ res' = Ok
                /\ listing' = installed.val
                /\ IF Len(installed.val) <= k \/ Len(removing) = 0
                   THEN /\ msg' = "nothing_to_prune"
                        /\ arg' = <<>>
                        /\ UNCHANGED <<versions, bins>>
                   ELSE /\ arg' = input
                        /\ IF to_lowercase(trim(input)) = <<"y">>
                           THEN /\ versions' = remove_each(versions, removing)
                                /\ bins' = {b \in bins : b[1] \in versions'}
                                /\ msg' = "pruned"
                           ELSE /\ msg' = "cancelled"
                                /\ UNCHANGED <<versions, bins>>
        /\ UNCHANGED <<env, pins, globalFile, shims, pc, wasGlobal, x, y, out,
                       entries, seen, installVars, stepVars>>

----------------------------------------------------------------------------
(* govm.rs: exec_command                                                   *)

\* a check that takes the requested binary from any installed version
binary_exists_anywhere(files, version, binary) == \E b \in files : b[2] = binary

\* get_version_bin_path(version, binary).exists()
binary_exists(files, version, binary) == <<version, binary>> \in files

\* Command::new(binary_path).env("GOROOT", goroot)
Child(version, binary) ==
    [binary_path |-> <<version, "bin", binary>>, goroot |-> version]

\* std::process::ExitStatus of a child: exited with a code, or terminated by
\* a signal (SIGKILL, SIGTERM)
ChildOutcomes ==
    {[kind |-> "exited", n |-> c] : c \in 0..MaxCode}
        \cup {[kind |-> "signaled", n |-> sig] : sig \in {9, 15}}

\* ExitStatus::code: None when the child was terminated by a signal
code(st) == IF st.kind = "exited" THEN [tag |-> "Some", val |-> st.n] ELSE None

\* Option::unwrap_or
unwrap_or(opt, default) == IF opt.tag = "Some" THEN opt.val ELSE default

\* exec_command(command, ..); started is whether Command::status could start
\* the child, ended is how the child ended
exec_command(command, started, ended) ==
    LET resolved == resolve(env, pins, globalFile)
        version == resolved.val
        \* main returning Err: the process exits with code 1 and had no child
        refused(m) ==
            /\ res' = Err
            /\ msg' = m
            /\ spawned' = NoChild
            /\ status' = [child |-> NoStatus.child, exit |-> 1]
    IN
    /\ pc = "idle"
    /\ op' = "exec"
    /\ arg' = <<command>>
    /\ listing' = <<>>
    /\ keep' = 0
    /\ source' = NoSource
    /\ wrote' = {}
    /\ IF resolved = Err THEN refused("IoFailure")
       ELSE IF resolved = None THEN refused("NoVersionConfigured")
       ELSE IF ~is_version_installed(versions, version)
       THEN refused("VersionNotInstalled")
       ELSE IF ~binary_exists(bins, version, command) THEN refused("BinaryNotFound")
       ELSE IF ~started THEN refused("IoFailure")
       ELSE /\ res' = Ok
            /\ msg' = "spawned"
            /\ spawned' = Child(version, command)
            /\ status' = [child |-> ended, exit |-> unwrap_or(code(ended), 1)]
    /\ UNCHANGED <<fsVars, pc, wasGlobal, x, y, out, entries, seen, installVars, stepVars>>

----------------------------------------------------------------------------
(* shim.rs: ensure_shims                                                   *)

\* the text create_shim writes (lines 39-48): the manager path character by
\* character, the fixed text around it and the binary name as whole pieces
shim_content(shim) ==
    <<"#!/bin/sh\n# Shim created by govm - DO NOT EDIT\n# This shim intercepts calls to '",
      shim.binary,
      "' and delegates to the appropriate Go version\n\nexec \"">>
    \o shim.govm
    \o <<"\" exec \"", shim.binary, "\" \"$@\"\n">>

\* str::contains
contains(content, pat) ==
    \E i \in 1..(Len(content) + 1) :
        /\ i + Len(pat) - 1 <= Len(content)
        /\ SubSeq(content, i, i + Len(pat) - 1) = pat

\* needs_update of ensure_shims, lines 18-25
needs_update(shim, govm_path) ==
    IF shim.present
    THEN IF shim.readable THEN ~contains(shim_content(shim), govm_path) ELSE TRUE
    ELSE TRUE

\* the shims directory after ensure_shims, run by the manager at govm_path
ensure_shims(shs, govm_path) ==
    [b \in GO_BINARIES |->
        IF needs_update(shs[b], govm_path) THEN create_shim(b, govm_path)
        ELSE shs[b]]

\* ensure_shims on its own
EnsureShims(govm_path) ==
    /\ pc = "idle"
    /\ op' = "ensure_shims"
    /\ arg' = govm_path
    /\ shims' = ensure_shims(shims, govm_path)
    /\ wrote' = {b \in GO_BINARIES : needs_update(shims[b], govm_path)}
    /\ spawned' = NoChild
    /\ status' = NoStatus
    /\ listing' = <<>>
    /\ keep' = 0
    /\ source' = NoSource
    /\ res' = Ok
    /\ msg' = "ensured"
    /\ UNCHANGED <<env, pins, globalFile, versions, bins, pc, wasGlobal, x, y,
                   out, entries, seen, installVars, stepVars>>

----------------------------------------------------------------------------
(* govm.rs: install_version, use_version; download.rs: extract_archive     *)

\* what go.dev/dl answers to fetch_remote_versions: the version in display
\* form and whether it has an archive for this platform
Catalog ==
    {[version |-> <<"g", "o">> \o V12, archive |-> TRUE],
     [version |-> <<"g", "o">> \o V13, archive |-> TRUE],
     [version |-> <<"g", "o">> \o V14, archive |-> TRUE],
     [version |-> <<"g", "o">> \o <<"1", ".", "1">>, archive |-> FALSE]}

\* how the steps of an installation may end: the catalog cannot be fetched,
\* the download fails, extract_archive fails (open, unpack or rename), the
\* archive holds no "go" directory, the archive cannot be removed, all is well
Outcomes ==
    {"fetch_failed", "download_failed", "extract_failed", "no_go_dir",
     "cleanup_failed", "ok"}

\* an extraction that unpacks into the version directory itself, so that a
\* failed unpack leaves the directory behind
extract_archive_inPlace(dirs, version, outcome) ==
    [ok |-> outcome # "extract_failed",
     dirs |-> IF outcome = "no_go_dir" THEN dirs ELSE dirs \cup {version}]

\* extract_archive: unpacks into temp_extract and renames temp_extract/go to
\* the version directory if it exists; the directories there are afterwards
extract_archive(dirs, version, outcome) ==
    [ok |-> outcome # "extract_failed",
     dirs |-> IF outcome \in {"extract_failed", "no_go_dir"} THEN dirs
              ELSE dirs \cup {version}]

\* a test that takes every installation for the first one
is_first_version_always(installed) == TRUE

\* installed.len() == 1 of line 218
is_first_version(installed) == Len(installed) = 1

\* what install_version(v) does and returns, run by the manager at govm_path,
\* on the markers, directories and shims given
installed_by(v, govm_path, outcome, gf, dirs, files, shs) ==
    LET version == normalize(v)
        unchanged == [globalFile |-> gf, versions |-> dirs, bins |-> files,
                      shims |-> shs, wrote |-> {}, listing |-> <<>>]
        found == {e \in Catalog : normalize(e.version) = version}
        extracted == extract_archive(dirs, version, outcome)
        placed == [unchanged EXCEPT
                     !.versions = extracted.dirs,
                     !.bins = files \cup ((extracted.dirs \ dirs) \X GO_BINARIES)]
        ensured == [placed EXCEPT
                      !.shims = ensure_shims(shs, govm_path),
                      !.wrote = {b \in GO_BINARIES : needs_update(shs[b], govm_path)}]
        failed(m, st) == {[res |-> Err, msg |-> m, st |-> st]}
    IN
    IF is_version_installed(dirs, version)
    THEN {[res |-> Ok, msg |-> "already_installed", st |-> unchanged]}
    ELSE IF outcome = "fetch_failed" THEN failed("fetch_failed", unchanged)
    ELSE IF found = {} THEN failed("CatalogEntryMissing", unchanged)
    ELSE IF \A e \in found : ~e.archive THEN failed("NoPlatformBinary", unchanged)
    ELSE IF outcome = "download_failed" THEN failed("download_failed", unchanged)
    ELSE IF ~extracted.ok THEN failed("extract_failed", placed)
    ELSE IF outcome = "cleanup_failed" THEN failed("IoFailure", placed)
    ELSE {IF ~is_first_version(installed.val)
          THEN [res |-> Ok, msg |-> "installed",
                st |-> [ensured EXCEPT !.listing = installed.val]]
          ELSE IF ~is_version_installed(placed.versions, normalize(version))
          THEN [res |-> Err, msg |-> "NotInstalled",
                st |-> [ensured EXCEPT !.listing = installed.val]]
          ELSE [res |-> Ok, msg |-> "installed_and_set_global",
                st |-> [ensured EXCEPT
                          !.listing = installed.val,
                          !.globalFile = File(normalize(version) \o LF)]]
            : installed \in {get_installed_versions(es) :
                                es \in Enumerations(placed.versions)}}

install_version(v, govm_path, outcome) ==
    \E r \in installed_by(v, govm_path, outcome, globalFile, versions, bins, shims) :
        /\ pc = "idle"
        /\ op' = "install"
        /\ arg' = v
        /\ res' = r.res
        /\ msg' = r.msg
        /\ globalFile' = r.st.globalFile
        /\ versions' = r.st.versions
        /\ bins' = r.st.bins
        /\ shims' = r.st.shims
        /\ wrote' = r.st.wrote
        /\ listing' = <<>>
        /\ spawned' = NoChild
        /\ status' = NoStatus
        /\ keep' = 0
        /\ source' = NoSource
        /\ UNCHANGED <<env, pins, pc, wasGlobal, x, y, out, entries, seen, installVars, stepVars>>

\* use_version(v, local): install_version if the version is not installed,
\* then the write of the marker
use_version(v, local, govm_path, outcome) ==
    LET version == normalize(v)
        installed == is_version_installed(versions, version)
    IN
    \E r \in IF installed
             THEN {[res |-> Ok, msg |-> "none",
                    st |-> [globalFile |-> globalFile, versions |-> versions,
                            bins |-> bins, shims |-> shims, wrote |-> {},
                            listing |-> <<>>]]}
             ELSE installed_by(version, govm_path, outcome, globalFile,
                               versions, bins, shims) :
        /\ pc = "idle"
        /\ op' = IF local THEN "use_local" ELSE "use_global"
        /\ arg' = v
        /\ versions' = r.st.versions
        /\ bins' = r.st.bins
        /\ shims' = r.st.shims
        /\ wrote' = r.st.wrote
        /\ listing' = <<>>
        /\ spawned' = NoChild
        /\ status' = NoStatus
        /\ keep' = 0
        /\ source' = NoSource
        /\ IF r.res = Err
           THEN /\ res' = Err
                /\ msg' = r.msg
                /\ globalFile' = r.st.globalFile
                /\ UNCHANGED pins
           ELSE /\ res' = Ok
                /\ msg' = IF local THEN "use_local" ELSE "use_global"
                /\ IF local
                   THEN /\ pins' = [pins EXCEPT ![1] = File(version \o LF)]
                        /\ globalFile' = r.st.globalFile
                   ELSE /\ globalFile' = File(version \o LF)
                        /\ UNCHANGED pins
        /\ UNCHANGED <<env, pc, wasGlobal, x, y, out, entries, seen, installVars, stepVars>>

----------------------------------------------------------------------------
(* Spec: the commands, one manager process at a time.                      *)

V13rc == <<"1", ".", "3", "r", "c">>

\* directory names under ~/.govm/versions
VersionNames == {V12, V13, V13rc}

\* version arguments as typed: canonical, prefixed, never installed, and a
\* bare prefix, whose canonical form is empty
Args == {V12, <<"v">> \o V12, <<"g", "o">> \o V13, V14, <<"v">>}

\* where the running manager executable may be
ExePaths == {<<"/", "a">>, <<"/", "b">>}

Init ==
    /\ env = NoEnv
    /\ pins \in [1..(Depth + 1) -> {NoFile, File(V13 \o LF)}]
    /\ globalFile \in {NoFile, Unreadable, File(V12 \o LF),
                        File(<<" ", "g", "o">> \o V13 \o LF), File(<<" ", "\n">>)}
    /\ versions \in SUBSET VersionNames
    /\ shims \in {[b \in GO_BINARIES |-> NoShim], create_all_shims(<<"/", "a">>)}
    /\ bins = versions \X GO_BINARIES
    /\ Fresh
    /\ NoInputs

Next ==
    \/ \E v \in Args : set_global_version(v)
    \/ \E v \in Args : set_local_version(v)
    \/ \E v \in Args : uninstall_version(v)
    \/ uninstall_clear_global
    \/ uninstall_remove_dir
    \/ \E p \in ExePaths : rehash(p)

Spec == Init /\ [][Next]_vars

\* C8: set_global_version and set_local_version refuse with NotInstalled when
\* the canonical version is not installed (is_version_installed is false) and
\* then leave the marker files unchanged; when it is installed they overwrite
\* their marker (the global file, or .go-version in the working directory)
\* with exactly the canonical version followed by a newline.
SetVersionRefusesOrWrites ==
    [][ LET version == normalize(arg')
            installed == is_version_installed(versions, version)
        IN  /\ pc = "idle" /\ op' = "global" =>
                 IF installed
                 THEN /\ res' = Ok
                      /\ globalFile' = File(version \o LF)
                      /\ pins' = pins
                 ELSE /\ res' = Err
                      /\ msg' = "NotInstalled"
                      /\ globalFile' = globalFile
                      /\ pins' = pins
            /\ pc = "idle" /\ op' = "local" =>
                 IF installed
                 THEN /\ res' = Ok
                      /\ pins' = [pins EXCEPT ![1] = File(version \o LF)]
                      /\ globalFile' = globalFile
                 ELSE /\ res' = Err
                      /\ msg' = "NotInstalled"
                      /\ pins' = pins
                      /\ globalFile' = globalFile ]_vars

\* a prefixed version was pinned in canonical form, then a set-global of a
\* version that is not installed was refused and left the global marker alone
SetVersionWitness ==
    /\ op = "global"
    /\ res = Err
    /\ msg = "NotInstalled"
    /\ arg = V14
    /\ pins[1] = File(V12 \o LF)
    /\ globalFile = File(<<" ", "g", "o">> \o V13 \o LF)

\* C9: uninstall of the installed version that is the global default clears
\* the global marker before it removes the install directory: at no point of
\* the command does the marker name a directory the command has removed, and
\* afterwards resolve with no override and no scoped pin returns absent.
UninstallClearsGlobalFirst ==
    op = "uninstall" /\ wasGlobal =>
        LET version == normalize(arg) IN
        /\ version \notin versions => get_global_version(globalFile) # Some(version)
        /\ pc = "idle" /\ res = Ok =>
              /\ version \notin versions
              /\ ~exists(globalFile)
              /\ resolve(NoEnv, NoPins, globalFile) = None

\* the global default has been uninstalled
UninstallGlobalWitness ==
    /\ op = "uninstall"
    /\ wasGlobal
    /\ pc = "idle"
    /\ res = Ok
    /\ msg = "uninstalled"
    /\ normalize(arg) \notin versions

\* C10: uninstall of a version that is not installed (is_version_installed is
\* false) succeeds, reports not-installed and leaves the installed set, the
\* global marker, the scoped pins and the shims unchanged; and once an
\* uninstall has succeeded, the same uninstall again has nothing left to
\* remove or to clear (calling it twice equals calling it once).
UninstallAbsentIsNoOp ==
    /\ [][ pc = "idle" /\ op' = "uninstall"
             /\ ~is_version_installed(versions, normalize(arg'))
           => /\ res' = Ok
              /\ msg' = "not_installed"
              /\ pc' = "idle"
              /\ UNCHANGED <<env, pins, globalFile, versions, shims>> ]_vars
    /\ [](op = "uninstall" /\ pc = "idle" /\ res = Ok =>
            LET version == normalize(arg) IN
            \/ ~is_version_installed(versions, version)
            \/ /\ remove_dir_all(versions, version) = versions
               /\ get_global_version(globalFile) \notin {Err, Some(version)})

\* not-installed was reported with other versions, a global default and shims
\* in place
UninstallAbsentWitness ==
    /\ op = "uninstall"
    /\ msg = "not_installed"
    /\ res = Ok
    /\ pc = "idle"
    /\ versions # {}
    /\ exists(globalFile)
    /\ \A b \in GO_BINARIES : shims[b].present

----------------------------------------------------------------------------
(* SpecPrune: prune_versions on every small installation.                  *)

\* answers to the prompt of prune_versions, as read_line returns them
Answers == {<<"y", "\n">>, <<" ", "Y", "\n">>, <<"y", "e", "s", "\n">>, <<"\n">>}

InitPrune ==
    /\ env = NoEnv
    /\ pins = NoPins
    /\ globalFile \in {NoFile, Unreadable, File(V12 \o LF), File(V13rc \o LF),
                        File(<<" ", "g", "o">> \o V13 \o LF)}
    /\ versions \in SUBSET VersionNames
    /\ bins = versions \X GO_BINARIES
    /\ shims = create_all_shims(<<"/", "a">>)
    /\ Fresh
    /\ NoInputs

NextPrune == \E k \in 0..MaxKeep, input \in Answers : prune_versions(k, input)

SpecPrune == InitPrune /\ [][NextPrune]_vars

\* C11: a confirmed prune_versions(keep) removes exactly the installed
\* versions that are outside the first keep entries of the installed set
\* sorted descending by key (as get_installed_versions returns it) and are not
\* the global default; the first keep versions and the global default are
\* still installed afterwards.
PruneRemovesBeyondKeep ==
    [][ op' = "prune" /\ res' = Ok /\ msg' # "cancelled" =>
          LET global == get_global_version(globalFile)
              window == {listing'[i] : i \in {j \in 1..Len(listing') : j <= keep'}}
              sorted == \A i, j \in 1..Len(listing') :
                           i < j => ~KeyLess(parse(listing'[i]), parse(listing'[j]))
              removed == {v \in versions \ window : global # Some(v)}
          IN  /\ Range(listing') = versions
              /\ Len(listing') = Cardinality(versions)
              /\ sorted
              /\ versions' = versions \ removed
              /\ window \subseteq versions'
              /\ \A v \in versions : global = Some(v) => v \in versions'
              /\ globalFile' = globalFile ]_vars

\* keep = 1 with three versions and the oldest as global default: only the
\* middle one was removed
PruneWitness ==
    /\ op = "prune"
    /\ msg = "pruned"
    /\ keep = 1
    /\ Len(listing) = 3
    /\ get_global_version(globalFile) = Some(listing[3])
    /\ versions = {listing[1], listing[3]}

----------------------------------------------------------------------------
(* SpecExec: exec_command in every small configuration.                    *)

InitExec ==
    /\ env \in {NoEnv, EnvVar(<<"g", "o">> \o V14)}
    /\ pins \in [1..(Depth + 1) -> {NoFile, File(V13 \o LF)}]
    /\ globalFile \in {NoFile, Unreadable, File(V12 \o LF)}
    /\ versions \in SUBSET {V12, V13, V14}
    /\ bins \in {versions \X GO_BINARIES,
                 (versions \X GO_BINARIES) \ {<<V13, "gofmt">>},
                 (versions \X GO_BINARIES) \ {<<V12, "go">>, <<V14, "go">>}}
    /\ shims = create_all_shims(<<"/", "a">>)
    /\ Fresh
    /\ NoInputs

NextExec ==
    \E c \in GO_BINARIES, started \in BOOLEAN, ended \in ChildOutcomes :
        exec_command(c, started, ended)

SpecExec == InitExec /\ [][NextExec]_vars

\* C12: exec_command checks in a fixed order and spawns no process when a
\* check fails: no version resolved -> NoVersionConfigured; the resolved
\* version not installed -> VersionNotInstalled, whatever a lower source
\* names; the binary missing in that version's bin directory ->
\* BinaryNotFound. A process is spawned only when all three checks pass, and
\* it is that version's binary. (When resolve itself fails on an unreadable
\* marker, exec_command fails with that error and spawns nothing.)
ExecChecksInOrder ==
    [][ op' = "exec" =>
          LET resolved == resolve(env, pins, globalFile)
              version == resolved.val
              command == arg'[1]
              installed == is_version_installed(versions, version)
              present == <<version, command>> \in bins
          IN  /\ resolved = Err => res' = Err /\ msg' = "IoFailure"
              /\ resolved = None => res' = Err /\ msg' = "NoVersionConfigured"
              /\ resolved.tag = "Some" /\ ~installed
                   => res' = Err /\ msg' = "VersionNotInstalled"
              /\ resolved.tag = "Some" /\ installed /\ ~present
                   => res' = Err /\ msg' = "BinaryNotFound"
              /\ res' = Err => spawned' = NoChild
              /\ spawned' # NoChild =>
                   /\ resolved.tag = "Some" /\ installed /\ present
                   /\ res' = Ok
                   /\ spawned' = [binary_path |-> <<version, "bin", command>>,
                                  goroot |-> version]
              /\ UNCHANGED <<env, pins, globalFile, versions, bins, shims>> ]_vars

\* the nearest pin names a version that is not installed while the global
\* default names one that is: exec_command refused and spawned nothing
ExecWitness ==
    /\ op = "exec"
    /\ msg = "VersionNotInstalled"
    /\ spawned = NoChild
    /\ find_local_version(pins) = Some(V13)
    /\ V13 \notin versions
    /\ get_global_version(globalFile) = Some(V12)
    /\ <<V12, arg[1]>> \in bins

----------------------------------------------------------------------------
(* SpecInstall: install_version and use_version, one manager process at a  *)
(* time.                                                                   *)

\* version arguments as typed: never installed, prefixed, prefixed both ways
\* (canonical form "v1.2"), without an archive for this platform
LifecycleArgs ==
    {V14, <<"g", "o">> \o V13, <<"g", "o", "v">> \o V12, <<"1", ".", "1">>}

InitInstall ==
    /\ env = NoEnv
    /\ pins = NoPins
    /\ globalFile \in {NoFile, File(V12 \o LF)}
    /\ versions \in SUBSET {V12, V13}
    /\ bins = versions \X GO_BINARIES
    /\ shims \in {[b \in GO_BINARIES |-> NoShim], create_all_shims(<<"/", "a">>)}
    /\ Fresh
    /\ NoInputs

\* where the manager that installs is: not where the shims of InitInstall
\* point
RunningExe == <<"/", "b">>

NextInstall ==
    \/ \E v \in LifecycleArgs, o \in Outcomes : install_version(v, RunningExe, o)
    \/ \E v \in LifecycleArgs, l \in BOOLEAN, o \in Outcomes :
          use_version(v, l, RunningExe, o)

SpecInstall == InitInstall /\ [][NextInstall]_vars

\* C13: an install_version that fails in the installer steps aborts: the
\* version is not installed afterwards, nothing was added to the versions
\* directory, and the shim and global-default steps did not run (the shims and
\* the global marker are unchanged).
InstallFailureAborts ==
    [][ ( /\ op' = "install"
          /\ res' = Err
          /\ msg' \in {"fetch_failed", "CatalogEntryMissing", "NoPlatformBinary",
                       "download_failed", "extract_failed"} ) =>
          /\ ~is_version_installed(versions', normalize(arg'))
          /\ normalize(arg') \notin versions'
          /\ versions' = versions
          /\ bins' = bins
          /\ shims' = shims
          /\ wrote' = {}
          /\ globalFile' = globalFile ]_vars

\* the extraction failed where a success would have written the shims and set
\* the global default
InstallFailureWitness ==
    /\ op = "install"
    /\ res = Err
    /\ msg = "extract_failed"
    /\ arg = V14
    /\ versions = {}
    /\ globalFile = NoFile
    /\ \A b \in GO_BINARIES : ~shims[b].present

\* C14 as stated: after a successful install_version(version), if that
\* version is the only installed version the global default equals it, and if
\* other versions were installed before the global marker is unchanged.
InstallBootstrapsGlobal ==
    [][ op' = "install" /\ res' = Ok =>
          LET version == normalize(arg') IN
          /\ versions' = {version}
               => get_global_version(globalFile') = Some(version)
          /\ versions \ {version} # {} => globalFile' = globalFile ]_vars

\* C14, amended: after a successful install_version(version) of a version
\* that was not installed, if that version is then the only installed version
\* the global default equals it, and if other versions were installed before
\* the global marker is unchanged; an install of a version that is installed
\* already leaves the global marker as it is.
FreshInstallBootstrapsGlobal ==
    [][ op' = "install" /\ res' = Ok =>
          LET version == normalize(arg') IN
          IF msg' = "already_installed"
          THEN globalFile' = globalFile /\ versions' = versions
          ELSE /\ versions' = {version}
                    => get_global_version(globalFile') = Some(version)
               /\ versions \ {version} # {} => globalFile' = globalFile ]_vars

\* the first version was installed over an empty directory and became the
\* global default
FreshInstallWitness ==
    /\ op = "install"
    /\ res = Ok
    /\ msg = "installed_and_set_global"
    /\ versions = {V14}
    /\ globalFile = File(V14 \o LF)

\* C15: after use_version(version, local) returns success the canonical
\* version is installed and the marker selected by local (.go-version in the
\* working directory, or the global file) holds the canonical version plus a
\* newline; use_version writes no marker for a version that is not installed.
UseWritesInstalledVersion ==
    [][ op' \in {"use_local", "use_global"} =>
          LET version == normalize(arg')
              local == op' = "use_local"
          IN  /\ res' = Ok =>
                   /\ is_version_installed(versions', version)
                   /\ IF local THEN pins'[1] = File(version \o LF)
                      ELSE globalFile' = File(version \o LF)
              /\ pins' # pins => /\ local
                                 /\ pins'[1].kind = "file"
                                 /\ is_version_installed(versions',
                                        normalize(trim(pins'[1].content)))
              /\ local => globalFile' = globalFile ]_vars

----------------------------------------------------------------------------
(* SpecShims: ensure_shims and rehash, by managers at different paths.     *)

\* where the running manager executable may be: two unrelated paths and one
\* that extends another
ManagerPaths == ExePaths \cup {<<"/", "a", "b">>}

\* what the file of a binary in the shims directory can be: absent,
\* unreadable, or the shim some manager wrote, with or without the mode
\* bits that create_shim sets after writing it
ShimStates(b) ==
    {NoShim, [NoShim EXCEPT !.present = TRUE]}
        \cup {[create_shim(b, p) EXCEPT !.executable = e] :
                 p \in ManagerPaths, e \in BOOLEAN}

InitShims ==
    /\ env = NoEnv
    /\ pins = NoPins
    /\ globalFile = NoFile
    /\ versions = {}
    /\ bins = {}
    /\ shims \in {s \in [GO_BINARIES -> UNION {ShimStates(b) : b \in GO_BINARIES}] :
                     \A b \in GO_BINARIES : s[b] \in ShimStates(b)}
    /\ Fresh
    /\ NoInputs

NextShims ==
    \/ \E p \in ManagerPaths : EnsureShims(p)
    \/ \E p \in ManagerPaths : rehash(p)

SpecShims == InitShims /\ [][NextShims]_vars

\* C16: for every managed binary, ensure_shims run by the manager at path B
\* rewrites the shim when it is absent or bound to a path A # B (also when B
\* is a substring of A) and writes nothing when the shim is bound to B;
\* calling ensure_shims twice in a row writes on the first call only.
StaleShimsAreRewritten ==
    [][ op' = "ensure_shims" =>
          /\ \A b \in GO_BINARIES :
                /\ b \in wrote' <=> ~shims[b].present \/ shims[b].govm # arg'
                /\ shims'[b].present /\ shims'[b].govm = arg'
          /\ op = "ensure_shims" /\ arg = arg' => wrote' = {} ]_vars

----------------------------------------------------------------------------
(* SpecWrite: the marker writes of set_global_version, set_local_version   *)
(* and use_version step by step, with another process resolving.           *)
(* fs::write(path, contents) is File::create(path), which truncates the    *)
(* file, followed by write_all(contents).                                  *)

\* the marker the command in progress writes
writes_local == op \in {"local", "use_local"}

\* what the writing command leaves unchanged while it starts
startFrame == <<env, pins, globalFile, versions, shims, bins, wasGlobal, out,
                outVars, entries, installVars, stepVars>>

\* set_global_version, lines 82-91: up to the call of fs::write
set_global_version_start(v) ==
    /\ pc = "idle"
    /\ op' = "global"
    /\ arg' = v
    /\ x' = resolve(env, pins, globalFile).val
    /\ y' = normalize(v)
    /\ seen' = NotRead
    /\ IF ~is_version_installed(versions, normalize(v))
       THEN res' = Err /\ msg' = "NotInstalled" /\ pc' = "idle"
       ELSE res' = Running /\ msg' = "none" /\ pc' = "write_create"
    /\ UNCHANGED startFrame

\* set_local_version, lines 103-114: up to the call of fs::write
set_local_version_start(v) ==
    /\ pc = "idle"
    /\ op' = "local"
    /\ arg' = v
    /\ x' = resolve(env, pins, globalFile).val
    /\ y' = normalize(v)
    /\ seen' = NotRead
    /\ IF ~is_version_installed(versions, normalize(v))
       THEN res' = Err /\ msg' = "NotInstalled" /\ pc' = "idle"
       ELSE res' = Running /\ msg' = "none" /\ pc' = "write_create"
    /\ UNCHANGED startFrame

\* use_version of a version that is installed, lines 126-141: up to the call
\* of fs::write
use_version_start(v, local) ==
    /\ pc = "idle"
    /\ is_version_installed(versions, normalize(v))
    /\ op' = IF local THEN "use_local" ELSE "use_global"
    /\ arg' = v
    /\ x' = resolve(env, pins, globalFile).val
    /\ y' = normalize(v)
    /\ seen' = NotRead
    /\ res' = Running
    /\ msg' = "none"
    /\ pc' = "write_create"
    /\ UNCHANGED startFrame

\* fs::write, first half: File::create opens the marker and truncates it
fs_write_create ==
    /\ pc = "write_create"
    /\ IF writes_local
       THEN pins' = [pins EXCEPT ![1] = File(<<>>)] /\ UNCHANGED globalFile
       ELSE globalFile' = File(<<>>) /\ UNCHANGED pins
    /\ pc' = "write_all"
    /\ UNCHANGED <<env, versions, shims, bins, op, arg, res, msg, wasGlobal, x,
                   y, out, outVars, entries, seen, installVars, stepVars>>

\* fs::write, second half: write_all(format!("{}\n", version))
fs_write_all ==
    /\ pc = "write_all"
    /\ IF writes_local
       THEN pins' = [pins EXCEPT ![1] = File(normalize(arg) \o LF)]
            /\ UNCHANGED globalFile
       ELSE globalFile' = File(normalize(arg) \o LF) /\ UNCHANGED pins
    /\ res' = Ok
    /\ msg' = IF writes_local THEN "set_local" ELSE "set_global"
    /\ pc' = "idle"
    /\ UNCHANGED <<env, versions, shims, bins, op, arg, wasGlobal, x, y, out,
                   outVars, entries, seen, installVars, stepVars>>

\* resolve_version in another process (a shim running govm exec, say), at any
\* moment of the write
concurrent_resolve ==
    /\ seen' = resolve(env, pins, globalFile)
    /\ UNCHANGED <<fsVars, pc, op, arg, res, msg, wasGlobal, x, y, out, outVars,
                   entries, installVars, stepVars>>

\* versions written and resolved
WriteArgs == {V12, <<"g", "o">> \o V13}

InitWrite ==
    /\ env = NoEnv
    /\ pins \in {NoPins, [NoPins EXCEPT ![1] = File(V13 \o LF)],
                 [NoPins EXCEPT ![Depth + 1] = File(V12 \o LF)]}
    /\ globalFile \in {NoFile, File(V12 \o LF), File(V14 \o LF)}
    /\ versions \in {{V12, V13}, {V13}}
    /\ bins = versions \X GO_BINARIES
    /\ shims = create_all_shims(<<"/", "a">>)
    /\ Fresh
    /\ NoInputs

NextWrite ==
    \/ \E v \in WriteArgs : set_global_version_start(v)
    \/ \E v \in WriteArgs : set_local_version_start(v)
    \/ \E v \in WriteArgs, l \in BOOLEAN : use_version_start(v, l)
    \/ fs_write_create
    \/ fs_write_all
    \/ concurrent_resolve

SpecWrite == InitWrite /\ [][NextWrite]_vars

\* C17: a marker write is atomic for concurrent readers: a process that
\* resolves while set_global_version, set_local_version or use_version is
\* writing gets what resolve returned before the write began or what it
\* returns once the write is done, never the result of an empty or partial
\* marker (so never a lower-precedence source or absent because of the write).
MarkerWriteIsAtomic ==
    LET before == IF x = <<>> THEN None ELSE Some(x)
        written == IF writes_local THEN [pins EXCEPT ![1] = File(y \o LF)]
                   ELSE pins
        after == resolve(env, written,
                         IF writes_local THEN globalFile ELSE File(y \o LF))
    IN  pc \in {"write_create", "write_all"} /\ seen # NotRead
            => seen \in {before, after}

----------------------------------------------------------------------------
(* show_version under SpecResolve.                                         *)

\* C18: whenever resolve returns a version, the source show_version reports
\* for it (GOVM_VERSION, one .go-version file, the global file) is the source
\* whose content resolve returned, also when GOVM_VERSION is set but
\* canonicalizes to empty and when the nearest .go-version is empty and a
\* farther one supplies the version.
ProvenanceAgrees ==
    LET value(f) == IF f.kind = "file" THEN normalize(trim(f.content)) ELSE <<>>
        levels == {i \in 1..Len(pins) : value(pins[i]) # <<>>}
        nearest == CHOOSE i \in levels : \A j \in levels : i <= j
        supplier == IF env.set /\ normalize(env.val) # <<>> THEN EnvSource
                    ELSE IF levels # {} THEN PinSource(nearest)
                    ELSE GlobalSource
    IN  op = "show" /\ res.tag = "Some" => source = supplier

----------------------------------------------------------------------------
(* SpecList: get_installed_versions on every small versions directory, in  *)
(* every order of enumeration.                                             *)

\* names in the versions directory: two with the same key, a later version
\* and a name that is no version
EntryNames == {V12, <<"1", ".", "2", ".", "0">>, V13, <<"t", "m", "p">>}

InitList ==
    /\ EmptyHome
    /\ Fresh
    /\ x = <<>>
    /\ y = <<>>
    /\ out = NoOut
    /\ seen = NotRead
    /\ entries \in
          LET states == {Entry(n, k) : n \in EntryNames,
                                       k \in {"dir", "file", "error"}}
          IN  {es \in UNION {[1..k -> states] : k \in 0..MaxEntries} :
                 \A i, j \in 1..Len(es) : i # j => es[i].name # es[j].name}

\* GoVM::get_installed_versions
List ==
    /\ op = "none"
    /\ op' = "list"
    /\ res' = IF get_installed_versions(entries) = Err THEN Err ELSE Ok
    /\ listing' = get_installed_versions(entries).val
    /\ UNCHANGED <<fsVars, pc, arg, msg, wasGlobal, x, y, out, spawned, status, keep,
                   source, wrote, entries, seen, installVars, stepVars>>

\* parse on its own, applied to the first name of the directory
ListKey ==
    /\ op = "none"
    /\ Len(entries) > 0
    /\ op' = "parse"
    /\ out' = [NoOut EXCEPT !.kx = parse(entries[1].name)]
    /\ UNCHANGED <<fsVars, pc, arg, res, msg, wasGlobal, x, y, outVars, entries,
                   seen, installVars, stepVars>>

NextList == List \/ ListKey

SpecList == InitList /\ [][NextList]_vars

\* C19: get_installed_versions returns the installed set sorted descending by
\* key, with ties between equal keys ("1.2" and "1.2.0") broken by the
\* canonical string, so that the order returned depends on the set of
\* directory names only and not on the order in which read_dir yields them.
ListingOrderIsCanonical ==
    op = "list" /\ res = Ok =>
        /\ \A i, j \in 1..Len(listing) :
              i < j => ~KeyLess(parse(listing[i]), parse(listing[j]))
        /\ \A p \in Permutations(1..Len(entries)) :
              get_installed_versions([i \in 1..Len(entries) |-> entries[p[i]]]).val
                  = listing

\* C20: the enumeration of the versions directory never fails the listing,
\* and the listing holds exactly the entries that are directories and whose
\* name is a canonical version: entries that are no directories and
\* directories whose name is no version are skipped.
ListingSkipsOtherEntries ==
    op = "list" =>
        /\ res = Ok
        /\ Range(listing) =
              {e.name : e \in {d \in Range(entries) :
                                 /\ d.kind = "dir"
                                 /\ is_parseable(d.name)
                                 /\ normalize(d.name) = d.name}}

----------------------------------------------------------------------------
(* prune_versions under SpecPrune: what it leaves alone.                   *)

\* C21: prune_versions deletes nothing without explicit confirmation: when
\* the answer, trimmed, is neither "y" nor "Y", when no more than keep
\* versions are installed, or when every version beyond the first keep is the
\* global default, the installed set is unchanged; and in every case the
\* global marker, the scoped pins and the shims are unchanged.
PruneNeedsConfirmation ==
    [][ op' = "prune" =>
          LET global == get_global_version(globalFile)
              beyond == {listing'[i] : i \in {j \in 1..Len(listing') : j > keep'}}
          IN  /\ trim(arg') \notin {<<"y">>, <<"Y">>} => versions' = versions
              /\ Cardinality(versions) <= keep' => versions' = versions
              /\ res' = Ok /\ (\A v \in beyond : global = Some(v))
                   => versions' = versions
              /\ globalFile' = globalFile
              /\ pins' = pins
              /\ shims' = shims
              /\ env' = env ]_vars

\* three versions, one of them to remove, and the answer "yes": cancelled
PruneCancelledWitness ==
    /\ op = "prune"
    /\ msg = "cancelled"
    /\ arg = <<"y", "e", "s", "\n">>
    /\ keep = 2
    /\ Cardinality(versions) = 3

----------------------------------------------------------------------------
(* SpecPruneRace: prune_versions in two steps, split where it waits for    *)
(* the answer on stdin, while other manager processes set the global       *)
(* default.                                                                *)

\* prune_versions, lines 505-540: reads the installed versions and the global
\* default, selects what to remove and prompts
prune_read(k) ==
    \E es \in Enumerations(versions) :
        LET installed == get_installed_versions(es)
            global == get_global_version(globalFile)
            removing == to_remove(installed.val, k, global)
        IN
        /\ pc = "idle"
        /\ op' = "prune"
        /\ keep' = k
        /\ arg' = <<>>
        /\ spawned' = NoChild
        /\ status' = NoStatus
        /\ source' = NoSource
        /\ wrote' = {}
        /\ IF installed = Err \/ global = Err
           THEN /\ res' = Err
                /\ msg' = "IoFailure"
                /\ listing' = <<>>
                /\ pc' = "idle"
           ELSE IF Len(installed.val) <= k \/ Len(removing) = 0
           THEN /\ res' = Ok
                /\ msg' = "nothing_to_prune"
                /\ listing' = <<>>
                /\ pc' = "idle"
           ELSE /\ res' = Running
                /\ msg' = "none"
                /\ listing' = removing
                /\ pc' = "prune_confirm"
        /\ UNCHANGED <<fsVars, wasGlobal, x, y, out, entries, seen, installVars, stepVars>>

\* prune_versions, lines 541-552: reads the answer and removes the versions
\* selected before the prompt
prune_answer(input) ==
    /\ pc = "prune_confirm"
    /\ arg' = input
    /\ IF to_lowercase(trim(input)) = <<"y">>
       THEN /\ versions' = remove_each(versions, listing)
            /\ bins' = {b \in bins : b[1] \in versions'}
            /\ msg' = "pruned"
       ELSE /\ msg' = "cancelled"
            /\ UNCHANGED <<versions, bins>>
    /\ res' = Ok
    /\ pc' = "idle"
    /\ UNCHANGED <<env, pins, globalFile, shims, op, wasGlobal, x, y, out,
                   spawned, status, listing, keep, source, wrote, entries, seen,
                   installVars, stepVars>>

\* set_global_version(v) run to its end by another manager process
set_global_version_elsewhere(v) ==
    /\ is_version_installed(versions, normalize(v))
    /\ globalFile' = File(normalize(v) \o LF)
    /\ UNCHANGED <<env, pins, versions, shims, bins, pc, op, arg, res, msg,
                   wasGlobal, x, y, out, outVars, entries, seen, installVars, stepVars>>

\* use_version(v, false) run to its end by another manager process at the
\* path the shims are bound to, every step of an installation succeeding
use_version_elsewhere(v) ==
    LET version == normalize(v)
        placed == IF is_version_installed(versions, version) THEN versions
                  ELSE extract_archive(versions, normalize(version), "ok").dirs
    IN  /\ versions' = placed
        /\ bins' = bins \cup ((placed \ versions) \X GO_BINARIES)
        /\ globalFile' = File(version \o LF)
        /\ UNCHANGED <<env, pins, shims, pc, op, arg, res, msg, wasGlobal, x,
                       y, out, outVars, entries, seen, installVars, stepVars>>

InitPruneRace ==
    /\ env = NoEnv
    /\ pins = NoPins
    /\ globalFile \in {NoFile, File(V14 \o LF)}
    /\ versions \in {{V12, V13, V14}, {V13, V14}}
    /\ bins = versions \X GO_BINARIES
    /\ shims = create_all_shims(<<"/", "a">>)
    /\ Fresh
    /\ NoInputs

NextPruneRace ==
    \/ \E k \in 0..MaxKeep : prune_read(k)
    \/ \E input \in Answers : prune_answer(input)
    \/ \E v \in {V12, <<"g", "o">> \o V13} : set_global_version_elsewhere(v)
    \/ \E v \in {V12, <<"g", "o">> \o V13} : use_version_elsewhere(v)

SpecPruneRace == InitPruneRace /\ [][NextPruneRace]_vars

\* C22: prune_versions never removes the directory of the version that is
\* the global default at the moment of the removal, also when another
\* process has set the global default since prune_versions read it.
PruneSparesActiveGlobal ==
    [][ pc = "prune_confirm" /\ pc' = "idle" =>
          \A v \in versions \ versions' :
              get_global_version(globalFile) # Some(v) ]_vars

----------------------------------------------------------------------------
(* SpecInstallRace: install_version of two different versions in two       *)
(* processes, step by step. Both extract into ~/.govm/temp_extract.        *)

\* the processes that install
Installers == {1, 2}

\* the files of a Go archive below its top directory "go", in archive order
ArchiveOrder == <<"VERSION", "bin/go">>

\* the complete distribution of a version, as its archive holds it
distribution(version) == {<<ArchiveOrder[i], version>> : i \in 1..Len(ArchiveOrder)}

\* process p returns r from install_version
returned(p, r) == ipc' = [ipc EXCEPT ![p].pc = "done", ![p].res = r]

\* install_version, lines 163-199: the installed check, the catalog and the
\* download into the archive of this version
install_start(p, downloads) ==
    /\ ipc[p].pc = "start"
    /\ IF is_version_installed(versions, normalize(ipc[p].version))
       THEN returned(p, Ok)
       ELSE IF ~downloads THEN returned(p, Err)
       ELSE ipc' = [ipc EXCEPT ![p].pc = "unpack"]
    /\ UNCHANGED <<fsVars, pc, op, arg, res, msg, wasGlobal, x, y, out, outVars,
                   entries, seen, temp_extract, trees, stepVars>>

\* extract_archive, lines 64-66: archive.unpack(temp_dir) writes the next file
\* of the archive under temp_extract/go, over a file of that name, or fails
unpack_entry(p, written) ==
    /\ ipc[p].pc = "unpack"
    /\ IF ~written
       THEN /\ returned(p, Err)
            /\ UNCHANGED temp_extract
       ELSE LET file == ArchiveOrder[ipc[p].next] IN
            /\ temp_extract' = {t \in temp_extract : t[1] # file}
                                  \cup {<<file, normalize(ipc[p].version)>>}
            /\ ipc' = IF ipc[p].next = Len(ArchiveOrder)
                      THEN [ipc EXCEPT ![p].pc = "rename"]
                      ELSE [ipc EXCEPT ![p].next = @ + 1]
    /\ UNCHANGED <<fsVars, pc, op, arg, res, msg, wasGlobal, x, y, out, outVars,
                   entries, seen, trees, stepVars>>

\* extract_archive, lines 69-72: if temp_extract/go exists, rename it to the
\* version directory
rename_extracted(p) ==
    LET version == normalize(ipc[p].version) IN
    /\ ipc[p].pc = "rename"
    /\ IF temp_extract = {}
       THEN /\ ipc' = [ipc EXCEPT ![p].pc = "cleanup"]
            /\ UNCHANGED <<versions, bins, trees, temp_extract>>
       ELSE IF version \in versions
       THEN /\ returned(p, Err)
            /\ UNCHANGED <<versions, bins, trees, temp_extract>>
       ELSE /\ versions' = versions \cup {version}
            /\ trees' = trees \cup {<<version, t[1], t[2]>> : t \in temp_extract}
            /\ bins' = bins \cup {<<version, b>> : b \in
                         {c \in GO_BINARIES : \E t \in temp_extract : t[1] = "bin/go"}}
            /\ temp_extract' = {}
            /\ ipc' = [ipc EXCEPT ![p].pc = "cleanup"]
    /\ UNCHANGED <<env, pins, globalFile, shims, pc, op, arg, res, msg,
                   wasGlobal, x, y, out, outVars, entries, seen, stepVars>>

\* extract_archive, lines 75-77: let _ = fs::remove_dir_all(temp_dir); Ok(())
remove_temp_dir(p) ==
    /\ ipc[p].pc = "cleanup"
    /\ temp_extract' = {}
    /\ ipc' = [ipc EXCEPT ![p].pc = "finish"]
    /\ UNCHANGED <<fsVars, pc, op, arg, res, msg, wasGlobal, x, y, out, outVars,
                   entries, seen, trees, stepVars>>

\* install_version, lines 204-222: the archive is removed, ensure_shims, and
\* the global default is set if one version is installed
install_finish(p, govm_path) ==
    LET version == normalize(ipc[p].version) IN
    \E es \in Enumerations(versions) :
        /\ ipc[p].pc = "finish"
        /\ shims' = ensure_shims(shims, govm_path)
        /\ IF ~is_first_version(get_installed_versions(es).val)
           THEN returned(p, Ok) /\ UNCHANGED globalFile
           ELSE IF ~is_version_installed(versions, normalize(version))
           THEN returned(p, Err) /\ UNCHANGED globalFile
           ELSE returned(p, Ok) /\ globalFile' = File(normalize(version) \o LF)
        /\ UNCHANGED <<env, pins, versions, bins, pc, op, arg, res, msg,
                       wasGlobal, x, y, out, outVars, entries, seen,
                       temp_extract, trees, stepVars>>

InitInstallRace ==
    /\ env = NoEnv
    /\ pins = NoPins
    /\ globalFile = NoFile
    /\ versions \in {{}, {V12}}
    /\ bins = versions \X GO_BINARIES
    /\ shims = create_all_shims(RunningExe)
    /\ pc = "idle"
    /\ op = "none"
    /\ arg = <<>>
    /\ res = None
    /\ msg = "none"
    /\ wasGlobal = FALSE
    /\ spawned = NoChild
    /\ status = NoStatus
    /\ listing = <<>>
    /\ keep = 0
    /\ source = NoSource
    /\ wrote = {}
    /\ NoInputs
    /\ current = 0
    /\ checks = <<>>
    /\ locals = NoLocals
    /\ temp_extract = {}
    /\ trees = {<<d, f[1], f[2]>> : d \in versions, f \in distribution(V12)}
    /\ ipc = [p \in Installers |->
                [version |-> IF p = 1 THEN V13 ELSE <<"g", "o">> \o V14,
                 pc |-> "start", next |-> 1, res |-> Running]]

NextInstallRace ==
    \E p \in Installers :
        \/ \E downloads \in BOOLEAN : install_start(p, downloads)
        \/ \E written \in BOOLEAN : unpack_entry(p, written)
        \/ rename_extracted(p)
        \/ remove_temp_dir(p)
        \/ install_finish(p, RunningExe)

SpecInstallRace == InitInstallRace /\ [][NextInstallRace]_vars

\* C23: two install_version calls for different versions in two processes
\* each either fail or publish a version directory that holds exactly the
\* complete distribution of its own version: no directory under versions
\* holds a file of another version's archive or lacks a file of its own, and
\* a call that returned success has published its directory.
InstallsDoNotMix ==
    /\ \A d \in versions :
          {<<t[2], t[3]>> : t \in {u \in trees : u[1] = d}} = distribution(d)
    /\ \A p \in DOMAIN ipc :
          ipc[p].pc = "done" /\ ipc[p].res = Ok
              => normalize(ipc[p].version) \in versions

----------------------------------------------------------------------------
(* install_version under SpecInstall: the version that is installed        *)
(* already.                                                                *)

\* C24: install_version of a version that is installed reports that and
\* stops: whatever the catalog, the download and the extraction would do, it
\* returns success and leaves the versions directory, the global marker and
\* the shims unchanged; hence a second install_version of the same version
\* after a successful one changes nothing.
InstallOfInstalledStops ==
    [][ op' = "install" =>
          /\ is_version_installed(versions, normalize(arg')) =>
                /\ res' = Ok
                /\ msg' = "already_installed"
                /\ wrote' = {}
                /\ UNCHANGED fsVars
          /\ op = "install" /\ res = Ok /\ arg' = arg => UNCHANGED fsVars ]_vars

----------------------------------------------------------------------------
(* ensure_shims and rehash under SpecShims: the shims they leave.          *)

\* C25: after ensure_shims or rehash returns success, every managed binary
\* has its shim file, the shim is bound to the path of the manager that ran,
\* executes that manager's exec with the same binary name, and has the
\* execute bit set; rehash writes every shim whatever it held before.
ShimsAreCurrent ==
    [][ op' \in {"ensure_shims", "rehash"} /\ res' = Ok =>
          /\ \A b \in GO_BINARIES :
                /\ shims'[b].present
                /\ shims'[b].readable
                /\ shims'[b].govm = arg'
                /\ shims'[b].binary = b
                /\ shims'[b].executable
          /\ op' = "rehash" => wrote' = GO_BINARIES ]_vars

----------------------------------------------------------------------------
(* exec_command under SpecExec: the exit code.                             *)

\* C26: however the child that exec_command spawned ends, it has an exit
\* code and the manager exits with that code; the manager exits with 0
\* exactly when the child exited with 0.
ExecExitsAsChild ==
    [][ op' = "exec" /\ spawned' # NoChild =>
          /\ status'.child.kind = "exited"
          /\ status'.exit = status'.child.n
          /\ status'.exit = 0 <=> status'.child = [kind |-> "exited", n |-> 0] ]_vars

----------------------------------------------------------------------------
(* uninstall_version under Spec: what it leaves in place.                  *)

\* C27: for every version argument, also one whose canonical form is empty
\* ("v", "go"), uninstall_version removes at most the one directory named by
\* the canonical version: every other installed version, the shims and the
\* scoped pins remain in place.
UninstallRemovesOneDirectory ==
    [][ op' = "uninstall" =>
          /\ versions \ versions' \subseteq {normalize(arg')}
          /\ shims' = shims
          /\ pins' = pins ]_vars

----------------------------------------------------------------------------
(* SpecLifecycle: every command that changes the installation, one manager *)
(* process at a time, from a state without a dangling global default.      *)

\* version arguments as typed: plain, prefixed, prefixed both ways, and one
\* whose canonical form is empty
CommandArgs == {V12, <<"g", "o">> \o V13, <<"g", "o", "v">> \o V12, <<"v">>}

\* how the installer steps of a command end
CommandOutcomes == {"ok", "download_failed"}

InitLifecycle ==
    /\ env = NoEnv
    /\ pins = NoPins
    /\ versions \in SUBSET {V12, V13}
    /\ globalFile \in {NoFile} \cup {File(v \o LF) : v \in versions}
    /\ bins = versions \X GO_BINARIES
    /\ shims = create_all_shims(RunningExe)
    /\ Fresh
    /\ NoInputs

NextLifecycle ==
    \/ \E v \in CommandArgs, o \in CommandOutcomes : install_version(v, RunningExe, o)
    \/ \E v \in CommandArgs, l \in BOOLEAN, o \in CommandOutcomes :
          use_version(v, l, RunningExe, o)
    \/ \E v \in CommandArgs : set_global_version(v)
    \/ \E v \in CommandArgs : set_local_version(v)
    \/ \E v \in CommandArgs : uninstall_version(v)
    \/ uninstall_clear_global
    \/ uninstall_remove_dir
    \/ \E k \in 0..MaxKeep, input \in {<<"y", "\n">>, <<"\n">>} : prune_versions(k, input)
    \/ rehash(RunningExe)

SpecLifecycle == InitLifecycle /\ [][NextLifecycle]_vars

\* C28: starting with the global default unset or naming an installed
\* version, after any sequence of install_version, use_version,
\* set_global_version, set_local_version, uninstall_version, prune_versions
\* and rehash, each run to its end, the global default is unset or names a
\* version that is installed.
NoDanglingGlobal ==
    pc = "idle" =>
        LET global == get_global_version(globalFile)
        IN  global.tag = "Some" => global.val \in versions

----------------------------------------------------------------------------
(* get_installed_versions and is_version_installed under SpecList.         *)

\* C29: for every canonical version string v, the empty string and the names
\* of entries that are no directories included, is_version_installed(v)
\* holds if and only if v is an element of get_installed_versions().
RegistryAgrees ==
    op = "list" /\ res = Ok =>
        \A v \in EntryNames \cup {<<>>} :
            is_version_installed(
                {e.name : e \in {d \in Range(entries) : d.kind \in {"dir", "file"}}},
                v) <=> v \in Range(listing)

----------------------------------------------------------------------------
(* set_global_version and set_local_version under Spec: reading back.      *)

\* C30: after set_global_version(x) succeeds, get_global_version, and
\* resolve when there is no override and no scoped pin, return exactly the
\* canonical version that was checked as installed and written; after
\* set_local_version(x) succeeds, resolve in that directory without an
\* override returns that same version.
SetThenResolve ==
    [][ op' \in {"global", "local"} /\ res' = Ok =>
          LET version == normalize(arg') IN
          IF op' = "global"
          THEN /\ get_global_version(globalFile') = Some(version)
               /\ env' = NoEnv /\ find_local_version(pins') = None
                    => resolve(env', pins', globalFile') = Some(version)
          ELSE env' = NoEnv => resolve(env', pins', globalFile') = Some(version) ]_vars

----------------------------------------------------------------------------
(* SpecAscent: find_local_version run statement by statement, from a       *)
(* working directory of every depth up to Depth.                           *)

\* line 57: env::current_dir()?; cwd is whether it succeeds
find_local_start(cwd) ==
    /\ pc = "idle"
    /\ op = "none"
    /\ op' = "find_local"
    /\ checks' = <<>>
    /\ IF cwd
       THEN pc' = "loop" /\ current' = 1 /\ UNCHANGED res
       ELSE pc' = "idle" /\ res' = Err /\ UNCHANGED current
    /\ UNCHANGED <<fsVars, arg, msg, wasGlobal, x, y, out, outVars, entries,
                   seen, installVars, locals>>

\* an iteration whose pop is not tested: at the root the loop goes on
find_local_iteration_popUntested ==
    LET version_file == pins[current]
        version == normalize(trim(version_file.content))
        returns(r) == res' = r /\ pc' = "idle" /\ UNCHANGED current
        pop == IF current < Len(pins)
               THEN current' = current + 1 /\ UNCHANGED <<pc, res>>
               ELSE UNCHANGED <<current, pc, res>>
    IN  /\ pc = "loop"
        /\ checks' = Append(checks, current)
        /\ IF exists(version_file)
           THEN IF version_file.kind = "unreadable" THEN returns(Err)
                ELSE IF version # <<>> THEN returns(Some(version))
                ELSE pop
           ELSE pop
        /\ UNCHANGED <<fsVars, op, arg, msg, wasGlobal, x, y, out, outVars,
                       entries, seen, installVars, locals>>

\* lines 59-72, one iteration of the loop: version_file.exists(), the read,
\* the return of a version that is not empty, and current.pop() with the
\* break when current has no parent
find_local_iteration ==
    LET version_file == pins[current]
        version == normalize(trim(version_file.content))
        returns(r) == res' = r /\ pc' = "idle" /\ UNCHANGED current
        pop == IF current < Len(pins)
               THEN current' = current + 1 /\ UNCHANGED <<pc, res>>
               ELSE res' = None /\ pc' = "idle" /\ UNCHANGED current
    IN  /\ pc = "loop"
        /\ checks' = Append(checks, current)
        /\ IF exists(version_file)
           THEN IF version_file.kind = "unreadable" THEN returns(Err)
                ELSE IF version # <<>> THEN returns(Some(version))
                ELSE pop
           ELSE pop
        /\ UNCHANGED <<fsVars, op, arg, msg, wasGlobal, x, y, out, outVars,
                       entries, seen, installVars, locals>>

\* the working directory has 0 to Depth ancestors below the root
InitAscent ==
    /\ env = NoEnv
    /\ pins \in UNION {[1..k -> MarkerStates] : k \in 1..(Depth + 1)}
    /\ globalFile = NoFile
    /\ versions = {}
    /\ shims = [b \in GO_BINARIES |-> NoShim]
    /\ bins = {}
    /\ Fresh
    /\ NoInputs

NextAscent ==
    \/ \E cwd \in BOOLEAN : find_local_start(cwd)
    \/ find_local_iteration

\* the process that called find_local_version keeps running it
SpecAscent == InitAscent /\ [][NextAscent]_vars /\ WF_vars(find_local_iteration)

\* C31: the ascent of find_local_version terminates: the directories it
\* checks are the working directory and then each parent in turn, every one
\* at most once and never one below an earlier one; it makes at most depth+1
\* checks (one per directory from the working directory to the root); while
\* it runs there is a directory left to check; once started it stops, and
\* what it returns when it stops is what the whole walk computes.
AscentTerminates ==
    /\ [](/\ \A i \in 1..Len(checks) : checks[i] = i
          /\ Len(checks) <= Len(pins)
          /\ pc = "loop" => current = Len(checks) + 1 /\ current <= Len(pins)
          /\ op = "find_local" /\ pc = "idle" =>
                \/ checks = <<>> /\ res = Err
                \/ checks # <<>> /\ res = find_local_version(pins))
    /\ (pc = "loop" ~> pc = "idle")

\* the walk went from the deepest working directory past a blank marker up
\* to the root and found nothing
AscentWitness ==
    /\ op = "find_local"
    /\ pc = "idle"
    /\ res = None
    /\ Len(pins) = Depth + 1
    /\ Len(checks) = Depth + 1
    /\ pins[1] = File(<<" ", "\n">>)

----------------------------------------------------------------------------
(* SpecExecRace: exec_command run statement by statement while other       *)
(* manager processes rewrite the marker files.                             *)

\* lines 258-260: the call of resolve_version and the two ? on its result
exec_resolve(command) ==
    LET resolved == resolve(env, pins, globalFile)
        refused(m) ==
            /\ res' = Err
            /\ msg' = m
            /\ pc' = "idle"
            /\ status' = [child |-> NoStatus.child, exit |-> 1]
            /\ locals' = [NoLocals EXCEPT !.resolves = 1]
    IN  /\ pc = "idle"
        /\ op' = "exec"
        /\ arg' = <<command>>
        /\ spawned' = NoChild
        /\ IF resolved = Err THEN refused("IoFailure")
           ELSE IF resolved = None THEN refused("NoVersionConfigured")
           ELSE /\ res' = Running
                /\ msg' = "none"
                /\ pc' = "exec_resolved"
                /\ status' = NoStatus
                /\ locals' = [NoLocals EXCEPT !.resolves = 1,
                                              !.version = resolved.val]
        /\ UNCHANGED <<fsVars, wasGlobal, x, y, out, listing, keep, source,
                       wrote, entries, seen, installVars, current, checks>>

\* lines 262-268: is_version_installed(&version)
exec_check_installed ==
    /\ pc = "exec_resolved"
    /\ locals' = [locals EXCEPT !.checked = locals.version]
    /\ IF ~is_version_installed(versions, locals.version)
       THEN /\ res' = Err
            /\ msg' = "VersionNotInstalled"
            /\ pc' = "idle"
            /\ status' = [child |-> NoStatus.child, exit |-> 1]
       ELSE /\ pc' = "exec_installed"
            /\ UNCHANGED <<res, msg, status>>
    /\ UNCHANGED <<fsVars, op, arg, wasGlobal, x, y, out, spawned, listing,
                   keep, source, wrote, entries, seen, installVars, current,
                   checks>>

\* lines 270-274: get_version_bin_path(&version, command) and its exists()
exec_check_binary ==
    LET command == arg[1] IN
    /\ pc = "exec_installed"
    /\ locals' = [locals EXCEPT
                    !.binary_path = Child(locals.version, command).binary_path]
    /\ IF ~binary_exists(bins, locals.version, command)
       THEN /\ res' = Err
            /\ msg' = "BinaryNotFound"
            /\ pc' = "idle"
            /\ status' = [child |-> NoStatus.child, exit |-> 1]
       ELSE /\ pc' = "exec_binary"
            /\ UNCHANGED <<res, msg, status>>
    /\ UNCHANGED <<fsVars, op, arg, wasGlobal, x, y, out, spawned, listing,
                   keep, source, wrote, entries, seen, installVars, current,
                   checks>>

\* a spawn that asks resolve_version again for the GOROOT of the child
exec_spawn_resolvesAgain(started, ended) ==
    LET again == resolve(env, pins, globalFile)
        goroot == IF again.tag = "Some" THEN again.val ELSE locals.version
    IN
    /\ pc = "exec_binary"
    /\ pc' = "idle"
    /\ locals' = [locals EXCEPT !.resolves = @ + 1]
    /\ IF ~started
       THEN /\ res' = Err
            /\ msg' = "IoFailure"
            /\ status' = [child |-> NoStatus.child, exit |-> 1]
            /\ UNCHANGED spawned
       ELSE /\ res' = Ok
            /\ msg' = "spawned"
            /\ spawned' = [binary_path |-> locals.binary_path, goroot |-> goroot]
            /\ status' = [child |-> ended, exit |-> unwrap_or(code(ended), 1)]
    /\ UNCHANGED <<fsVars, op, arg, wasGlobal, x, y, out, listing, keep,
                   source, wrote, entries, seen, installVars, current, checks>>

\* lines 276-285: goroot = versions_dir.join(&version), Command::new(
\* &binary_path).env("GOROOT", &goroot).status()? and the exit
exec_spawn(started, ended) ==
    LET goroot == locals.version IN
    /\ pc = "exec_binary"
    /\ pc' = "idle"
    /\ UNCHANGED locals
    /\ IF ~started
       THEN /\ res' = Err
            /\ msg' = "IoFailure"
            /\ status' = [child |-> NoStatus.child, exit |-> 1]
            /\ UNCHANGED spawned
       ELSE /\ res' = Ok
            /\ msg' = "spawned"
            /\ spawned' = [binary_path |-> locals.binary_path, goroot |-> goroot]
            /\ status' = [child |-> ended, exit |-> unwrap_or(code(ended), 1)]
    /\ UNCHANGED <<fsVars, op, arg, wasGlobal, x, y, out, listing, keep,
                   source, wrote, entries, seen, installVars, current, checks>>

\* set_local_version(v) run to its end by another manager process in the
\* same working directory
set_local_version_elsewhere(v) ==
    /\ is_version_installed(versions, normalize(v))
    /\ pins' = [pins EXCEPT ![1] = File(normalize(v) \o LF)]
    /\ UNCHANGED <<env, globalFile, versions, shims, bins, pc, op, arg, res,
                   msg, wasGlobal, x, y, out, outVars, entries, seen,
                   installVars, stepVars>>

\* one or three versions installed, one without gofmt; a pin in the working
\* directory, installed or not, or none; a global default or none
InitExecRace ==
    /\ env = NoEnv
    /\ pins \in {NoPins, [NoPins EXCEPT ![1] = File(V13 \o LF)]}
    /\ globalFile \in {NoFile, File(V12 \o LF)}
    /\ versions \in {{V12}, {V12, V13, V14}}
    /\ bins = (versions \X GO_BINARIES) \ {<<V13, "gofmt">>}
    /\ shims = create_all_shims(RunningExe)
    /\ Fresh
    /\ NoInputs

\* the markers are rewritten by the other processes while exec_command runs
NextExecRace ==
    \/ \E c \in GO_BINARIES : exec_resolve(c)
    \/ exec_check_installed
    \/ exec_check_binary
    \/ \E started \in BOOLEAN, ended \in ChildOutcomes : exec_spawn(started, ended)
    \/ \E v \in {V12, <<"g", "o">> \o V14} :
          pc # "idle" /\ set_global_version_elsewhere(v)
    \/ \E v \in {V12, <<"g", "o">> \o V14} :
          pc # "idle" /\ set_local_version_elsewhere(v)

SpecExecRace == InitExecRace /\ [][NextExecRace]_vars

\* C32: exec_command resolves the version once per invocation: the version
\* it works with is what resolve_version returned at its one call and stays
\* the same until the invocation ends, whatever the other processes write to
\* the markers meanwhile; the version given to the installed check, the
\* version directory of the binary that is spawned and the GOROOT of the
\* child are all that version, so the binary is never from another version
\* than the one GOROOT names.
ExecResolvesOnce ==
    /\ [][ pc = "idle" /\ pc' = "exec_resolved" =>
             /\ locals'.resolves = 1
             /\ Some(locals'.version) = resolve(env, pins, globalFile) ]_vars
    /\ [][ pc # "idle" =>
             /\ locals'.resolves = locals.resolves
             /\ locals'.version = locals.version ]_vars
    /\ [][ spawned = NoChild /\ spawned' # NoChild =>
             /\ locals'.resolves = 1
             /\ locals'.checked = locals'.version
             /\ spawned' = Child(locals'.version, arg'[1])
             /\ spawned'.goroot = locals'.version
             /\ spawned'.binary_path[1] = spawned'.goroot ]_vars

\* a child was spawned from the version resolved at the start although the
\* markers, rewritten while exec_command ran, now name another version
ExecRaceWitness ==
    /\ op = "exec"
    /\ pc = "idle"
    /\ spawned # NoChild
    /\ spawned.goroot = locals.version
    /\ resolve(env, pins, globalFile) \notin {Some(spawned.goroot), None, Err}

====
